---- MODULE Spec2Model ----
(***************************************************************************)
(* Model of the bhyve/xhyve builder: the hypervisor process driver         *)
(* (builder/hyve/driver.go), the run-VM step and the builder's Run         *)
(* (builder/hyve/step_run.go) and the serial boot-command typist           *)
(* (builder/hyve/step_type_boot_command.go).                               *)
(*                                                                         *)
(* The specifications share the variables; each leaves the variables of    *)
(* the parts it does not exercise unchanged:                               *)
(*   SpecDriver  threads call Hyve / Stop / WaitForShutdown freely         *)
(*   SpecTypist  the type-boot-command step typing its command lines       *)
(*   SpecBuild   Builder.Run: the step pipeline driving the driver         *)
(*   SpecVersion the parsing of the hypervisor's version output            *)
(*   SpecPrepare the validation of a configuration                         *)
(* and, with the scheduling of the goroutines as fairness conditions,      *)
(*   SpecDriverLive  SpecDriver with every goroutine scheduled             *)
(*   SpecLaunchLive  launches with their watchers and log readers          *)
(*   SpecBuildLive   SpecBuild with every goroutine scheduled              *)
(*   SpecTypistLive  SpecTypist with ttySendString scheduled               *)
(***************************************************************************)
EXTENDS Integers, Sequences, FiniteSets, TLC

\* ------------------------------------------------------------------ bounds
\* Hyve calls made on one Driver (each spawns at most one subprocess).
MaxLaunch == 2

\* Tokens in the text of the boot command (SpecTypist).
MaxTokens == 2

\* Device writes that fail during one run of the type-boot-command step.
MaxWriteErrs == 1

\* Tokens in the output of the hypervisor's version command (SpecVersion).
MaxVerTokens == 7

\* Threads that call the Driver. Hyve holds d.lock from entry to return, so
\* Hyve calls never overlap: one thread makes them all (as the run-VM step
\* does); any thread may call Stop and WaitForShutdown.
Threads   == {"t1", "t2"}
Launchers == {"t1"}
Launches  == 1..MaxLaunch

\* nil for d.vmCmd / d.vmEndCh / d.tty (launch ids are 1..MaxLaunch)
NULL == 0

\* ------------------------------------------------------------- variables
VARIABLES
  vmCmd,      \* d.vmCmd: NULL or the launch whose *exec.Cmd is recorded
  vmEndCh,    \* d.vmEndCh: NULL or the launch whose endCh is recorded
  lock,       \* d.lock: "free", a thread, or a watcher ("w1", "w2", ..)
  tty,        \* d.tty: NULL or the launch whose COM1 path was discovered
  op,         \* per thread: the Driver method it is in / was last in
  pc,         \* per thread: position inside that method
  ret,        \* per thread: what the method returned
  cmd,        \* per thread: Hyve's local cmd (launch id)
  endChL,     \* per thread: WaitForShutdown's local endCh
  sel,        \* per thread (history): what decided Hyve's select in this call:
              \* "timer", "exit0" (exit code 0 received), "exitN" (non-zero)
  hyveCalls,  \* number of Hyve calls made so far
  nLaunch,    \* number of subprocesses spawned so far (pty.Start successes)
  proc,       \* per launch: "none", "running", "killed", "exited"
  chan,       \* per launch: contents of endCh (buffered, capacity 1)
  wpc,        \* per launch: completion watcher position: "none" (not
              \* started), "wait", "lock", "clear", "close_stdout",
              \* "close_stderr", "done"
  sent,       \* per launch (history): number of exit codes sent on endCh
  pipes,      \* per launch and stream: "none", or "open"/"closed": the write
              \* end of the pipe the log reader of the stream reads from
  logpc,      \* per launch and stream: logReader position, "none" (not
              \* started), "reading", "done"
  cancelCh,   \* WaitForShutdown's cancel channel is closed
  panicked,   \* panic("Existing VM state found") was raised
  lastLive,   \* history: the launch of the Hyve call that returned last, when the
              \* grace timer decided it and it returned nil; NULL otherwise
  wfsFor      \* per thread (history): lastLive when WaitForShutdown was called

VARIABLES
  bootCommand,  \* config.BootCommand after interpolate.Render: per line,
                \* [ok |-> rendered without error, text |-> the rendered bytes]
  lineIdx,      \* position of stepTypeBootCommand.Run's range loop
  original,     \* ttySendString's remaining text
  tlog,         \* history: device writes and sleeps of the step, in order
  lineFrom,     \* history: Len(tlog) when the current ttySendString call began
  spc,          \* stepTypeBootCommand.Run position
  stepAction,   \* what stepTypeBootCommand.Run returned
  writeErrs     \* number of device writes that failed

VARIABLES
  rpc,          \* Builder.Run position
  runnerSet,    \* b.runner # nil
  idx,          \* index (in Steps) of the step that runs next / is running
  ran,          \* steps whose Run was called, in call order (the deferred Cleanups)
  cleaned,      \* history: steps whose Cleanup was called, in call order
  bagErr,       \* state bag key "error": "none" or the recorded error
  bagCancelled, \* state bag key multistep.StateCancelled is present
  bagHalted,    \* state bag key multistep.StateHalted is present
  bagKeys,      \* result keys put by steps (iso_path, disk_filename, http_port)
  bagDisk,      \* the value under disk_filename ("" before it is put)
  outputDir,    \* the output directory as filepath.Walk finds it
  artifact,     \* the Artifact Builder.Run builds: its files and state
  result,       \* what Builder.Run returned: [artifact, err]
  haltedAt,     \* history: index of the step whose Run returned ActionHalt (0: none)
  haltCause,    \* history: why it halted: "none", "error", "cancel"
  cancelAt,     \* history: where the cancellation signal was raised:
                \* [k |-> steps started so far, inStep |-> a step was in progress]
  cancelLost    \* history: Builder.Cancel was called and found b.runner nil

VARIABLES
  verStdout,    \* what `hyve -v` wrote to stdout (a sequence of characters)
  verRunOk,     \* cmd.Run() of the version command returned nil
  verRet        \* what Version returned, [version, err]; NotCalled before

VARIABLES
  prepRaw,      \* the configuration as config.Decode filled b.config from raws
  prepEnv,      \* what Prepare finds around it: [goos, decodeOk, commOk, dirExists]
  prepConf,     \* b.config
  prepRet       \* what Prepare returned: [called, warnings, errs]

driverVars == <<vmCmd, vmEndCh, lock, tty, op, pc, ret, cmd, endChL, sel, hyveCalls,
                nLaunch, proc, chan, wpc, sent, pipes, logpc, cancelCh, panicked,
                lastLive, wfsFor>>

typistVars == <<bootCommand, lineIdx, original, tlog, lineFrom, spc, stepAction,
                writeErrs>>

buildVars == <<rpc, runnerSet, idx, ran, cleaned, bagErr, bagCancelled, bagHalted,
               bagKeys, bagDisk, outputDir, artifact, result, haltedAt,
               haltCause, cancelAt, cancelLost>>

versionVars == <<verStdout, verRunOk, verRet>>

prepareVars == <<prepRaw, prepEnv, prepConf, prepRet>>

vars == <<driverVars, typistVars, buildVars, versionVars, prepareVars>>

\* ======================================================================
\* Driver (builder/hyve/driver.go)
\* ======================================================================

\* The watcher's exit code computation (driver.go:120-130): 0 when cmd.Wait
\* reports no error; the OS exit status of an *exec.ExitError (ExitStatus()
\* is -1 for a process terminated by a signal); 254 when the status is not a
\* syscall.WaitStatus; 0 for an error that is no *exec.ExitError.
ExitCode(w) ==
  CASE w = "ok"       -> 0
    [] w = "exit1"    -> 1
    [] w = "signal"   -> -1
    [] w = "nostatus" -> 254
    [] OTHER          -> 0

\* What cmd.Wait() can report for a process that ended the given way.
WaitResults(p) == IF p = "killed" THEN {"signal"} ELSE {"ok", "exit1"}

WatcherId(l) == "w" \o ToString(l)

\* The two streams Hyve starts a logReader for (driver.go:111-112).
Streams == {"stdout", "stderr"}

\* cmd.Wait() has returned for launch l: os.Process is marked done.
Reaped(l) == wpc[l] \in {"lock", "clear", "close_stdout", "close_stderr", "done"}

\* The watcher of launch l has cleared the Driver's fields and released
\* d.lock (its deferred closes of the pipes may still be to run).
Cleared(l) == wpc[l] \in {"close_stdout", "close_stderr", "done"}

InitDriver ==
  /\ vmCmd = NULL /\ vmEndCh = NULL /\ lock = "free" /\ tty = NULL
  /\ op = [t \in Threads |-> "none"]
  /\ pc = [t \in Threads |-> "idle"]
  /\ ret = [t \in Threads |-> "none"]
  /\ cmd = [t \in Threads |-> NULL]
  /\ endChL = [t \in Threads |-> NULL]
  /\ sel = [t \in Threads |-> "none"]
  /\ hyveCalls = 0 /\ nLaunch = 0
  /\ proc = [l \in Launches |-> "none"]
  /\ chan = [l \in Launches |-> <<>>]
  /\ wpc = [l \in Launches |-> "none"]
  /\ sent = [l \in Launches |-> 0]
  /\ pipes = [l \in Launches |-> [s \in Streams |-> "none"]]
  /\ logpc = [l \in Launches |-> [s \in Streams |-> "none"]]
  /\ cancelCh = FALSE /\ panicked = FALSE
  /\ lastLive = NULL
  /\ wfsFor = [t \in Threads |-> NULL]

Idle(t) == pc[t] \in {"idle", "done"}

\* A method call begins: the thread reaches d.lock.Lock(). The locals of the
\* thread's previous call are gone.
Call(t, method) ==
  /\ ~panicked /\ Idle(t)
  /\ op' = [op EXCEPT ![t] = method]
  /\ pc' = [pc EXCEPT ![t] = "lock"]
  /\ ret' = [ret EXCEPT ![t] = "none"]
  /\ cmd' = [cmd EXCEPT ![t] = NULL]
  /\ endChL' = [endChL EXCEPT ![t] = NULL]
  /\ sel' = [sel EXCEPT ![t] = "none"]
  /\ wfsFor' = [wfsFor EXCEPT ![t] = IF method = "Wait" THEN lastLive ELSE NULL]

\* d.lock.Lock() returns.
Acquire(t, method, next) ==
  /\ ~panicked /\ op[t] = method /\ pc[t] = "lock" /\ lock = "free"
  /\ lock' = t
  /\ pc' = [pc EXCEPT ![t] = next]

\* Hyve returns v, its select decided as s: the deferred tty.Close() and
\* d.lock.Unlock() run.
HyveReturn(t, v, s) ==
  /\ pc' = [pc EXCEPT ![t] = "done"]
  /\ ret' = [ret EXCEPT ![t] = v]
  /\ lock' = "free"
  /\ lastLive' = IF v = "nil" /\ s = "timer" THEN cmd[t] ELSE NULL

\* --- Hyve (driver.go:75-155) ------------------------------------------

HyveCall(t) ==
  /\ hyveCalls < MaxLaunch
  /\ Call(t, "Hyve")
  /\ hyveCalls' = hyveCalls + 1
  /\ UNCHANGED <<vmCmd, vmEndCh, lock, tty, nLaunch, proc, chan, wpc, sent,
                 pipes, logpc, cancelCh, panicked, lastLive, typistVars,
                 buildVars, versionVars, prepareVars>>

HyveLock(t) ==
  /\ Acquire(t, "Hyve", "check")
  /\ UNCHANGED <<vmCmd, vmEndCh, tty, op, ret, cmd, endChL, sel, hyveCalls,
                 nLaunch, proc, chan, wpc, sent, pipes, logpc, cancelCh,
                 panicked, lastLive, wfsFor, typistVars, buildVars,
                 versionVars, prepareVars>>

\* Mutant of HyveCheck: the guard against an existing handle is missing.
HyveCheckNoPanic(t) ==
  /\ ~panicked /\ op[t] = "Hyve" /\ pc[t] = "check"
  /\ pc' = [pc EXCEPT ![t] = "start"]
  /\ UNCHANGED <<vmCmd, vmEndCh, lock, tty, op, ret, cmd, endChL, sel,
                 hyveCalls, nLaunch, proc, chan, wpc, sent, pipes, logpc,
                 cancelCh, panicked, lastLive, wfsFor, typistVars, buildVars,
                 versionVars, prepareVars>>

\* driver.go:79-81: a recorded handle is a fatal invariant violation. The
\* deferred Unlock runs while the panic unwinds; nothing recovers it.
HyveCheck(t) ==
  /\ ~panicked /\ op[t] = "Hyve" /\ pc[t] = "check"
  /\ IF vmCmd # NULL
       THEN /\ panicked' = TRUE
            /\ pc' = [pc EXCEPT ![t] = "panic"]
            /\ ret' = [ret EXCEPT ![t] = "panic"]
            /\ lock' = "free"
       ELSE /\ pc' = [pc EXCEPT ![t] = "start"]
            /\ UNCHANGED <<panicked, ret, lock>>
  /\ UNCHANGED <<vmCmd, vmEndCh, tty, op, cmd, endChL, sel, hyveCalls,
                 nLaunch, proc, chan, wpc, sent, pipes, logpc, cancelCh,
                 lastLive, wfsFor, typistVars, buildVars, versionVars,
                 prepareVars>>

\* driver.go:83-98: pty.Start(cmd) spawns the subprocess or fails.
HyveStart(t) ==
  /\ ~panicked /\ op[t] = "Hyve" /\ pc[t] = "start"
  /\ \E ok \in BOOLEAN :
       IF ok
         THEN /\ nLaunch' = nLaunch + 1
              /\ proc' = [proc EXCEPT ![nLaunch + 1] = "running"]
              /\ cmd' = [cmd EXCEPT ![t] = nLaunch + 1]
              /\ pc' = [pc EXCEPT ![t] = "readline"]
              /\ UNCHANGED <<ret, lock, lastLive>>
         ELSE /\ HyveReturn(t, "err_start", "none")
              /\ UNCHANGED <<nLaunch, proc, cmd>>
  /\ UNCHANGED <<vmCmd, vmEndCh, tty, op, endChL, sel, hyveCalls, chan, wpc,
                 sent, pipes, logpc, cancelCh, panicked, wfsFor, typistVars,
                 buildVars, versionVars, prepareVars>>

\* driver.go:83-84, 100-138: read the first output line (an error returns
\* it, with the subprocess left as it is, the pipes unused and no goroutine
\* started); record the COM1 device when the line matches; start the two log
\* readers on the pipes and the completion watcher on a fresh endCh.
HyveReadLine(t) ==
  /\ ~panicked /\ op[t] = "Hyve" /\ pc[t] = "readline"
  /\ \E line \in {"err", "match", "nomatch"} :
       IF line = "err"
         THEN /\ HyveReturn(t, "err_readline", "none")
              /\ UNCHANGED <<tty, wpc, pipes, logpc>>
         ELSE /\ tty' = IF line = "match" THEN cmd[t] ELSE tty
              /\ wpc' = [wpc EXCEPT ![cmd[t]] = "wait"]
              /\ pipes' = [pipes EXCEPT ![cmd[t]] = [s \in Streams |-> "open"]]
              /\ logpc' = [logpc EXCEPT ![cmd[t]] = [s \in Streams |-> "reading"]]
              /\ pc' = [pc EXCEPT ![t] = "select"]
              /\ UNCHANGED <<ret, lock, lastLive>>
  /\ UNCHANGED <<vmCmd, vmEndCh, op, cmd, endChL, sel, hyveCalls, nLaunch,
                 proc, chan, sent, cancelCh, panicked, wfsFor, typistVars,
                 buildVars, versionVars, prepareVars>>

\* Mutants of EarlyExitFails: the early exit code is ignored / any early
\* exit is a failed launch.
EarlyExitFailsNever(exit) == FALSE

EarlyExitFailsAlways(exit) == TRUE

\* What Hyve does with an exit code received inside the grace window
\* (driver.go:143-146): only a non-zero code is a failed launch.
EarlyExitFails(exit) == exit # 0

\* driver.go:142-146: the completion signal fires inside the grace window.
HyveSelectExit(t) ==
  /\ ~panicked /\ op[t] = "Hyve" /\ pc[t] = "select"
  /\ chan[cmd[t]] # <<>>
  /\ chan' = [chan EXCEPT ![cmd[t]] = Tail(@)]
  /\ sel' = [sel EXCEPT ![t] = IF Head(chan[cmd[t]]) = 0 THEN "exit0" ELSE "exitN"]
  /\ IF EarlyExitFails(Head(chan[cmd[t]]))
       THEN HyveReturn(t, "err_early", "exit")
       ELSE /\ pc' = [pc EXCEPT ![t] = "set"]
            /\ UNCHANGED <<ret, lock, lastLive>>
  /\ UNCHANGED <<vmCmd, vmEndCh, tty, op, cmd, endChL, hyveCalls, nLaunch,
                 proc, wpc, sent, pipes, logpc, cancelCh, panicked, wfsFor,
                 typistVars, buildVars, versionVars, prepareVars>>

\* driver.go:147: the 2 second grace timer fires first (a select blocked on
\* both channels is woken by whichever becomes ready first).
HyveSelectTimer(t) ==
  /\ ~panicked /\ op[t] = "Hyve" /\ pc[t] = "select"
  /\ chan[cmd[t]] = <<>>
  /\ pc' = [pc EXCEPT ![t] = "set"]
  /\ sel' = [sel EXCEPT ![t] = "timer"]
  /\ UNCHANGED <<vmCmd, vmEndCh, lock, tty, op, ret, cmd, endChL, hyveCalls,
                 nLaunch, proc, chan, wpc, sent, pipes, logpc, cancelCh,
                 panicked, lastLive, wfsFor, typistVars, buildVars,
                 versionVars, prepareVars>>

\* driver.go:150-154: record the handle and the completion signal, return nil.
HyveSet(t) ==
  /\ ~panicked /\ op[t] = "Hyve" /\ pc[t] = "set"
  /\ vmCmd' = cmd[t]
  /\ vmEndCh' = cmd[t]
  /\ HyveReturn(t, "nil", sel[t])
  /\ UNCHANGED <<tty, op, cmd, endChL, sel, hyveCalls, nLaunch, proc, chan,
                 wpc, sent, pipes, logpc, cancelCh, panicked, wfsFor,
                 typistVars, buildVars, versionVars, prepareVars>>

\* --- the supervised process and its completion watcher ------------------

\* The subprocess ends by itself.
ProcExit(l) ==
  /\ ~panicked /\ proc[l] = "running"
  /\ proc' = [proc EXCEPT ![l] = "exited"]
  /\ UNCHANGED <<vmCmd, vmEndCh, lock, tty, op, pc, ret, cmd, endChL, sel,
                 hyveCalls, nLaunch, chan, wpc, sent, pipes, logpc, cancelCh,
                 panicked, lastLive, wfsFor, typistVars, buildVars,
                 versionVars, prepareVars>>

\* endCh := make(chan int, 1) (driver.go:115)
ChanCap == 1

\* Mutant of CanSend: endCh is unbuffered, and no receiver is waiting.
CanSendUnbuffered(buf) == FALSE

\* A send on endCh goes through at once when the buffer has room.
CanSend(buf) == Len(buf) < ChanCap

\* driver.go:120-132: cmd.Wait() returns with the way the process ended, the
\* exit code is computed and sent on endCh (the send blocks on a full
\* buffer).
WatcherPublish(l) ==
  /\ ~panicked /\ wpc[l] = "wait" /\ proc[l] \in {"exited", "killed"}
  /\ CanSend(chan[l])
  /\ sent' = [sent EXCEPT ![l] = @ + 1]
  /\ \E w \in WaitResults(proc[l]) :
       chan' = [chan EXCEPT ![l] = Append(@, ExitCode(w))]
  /\ proc' = [proc EXCEPT ![l] = "exited"]
  /\ wpc' = [wpc EXCEPT ![l] = "lock"]
  /\ UNCHANGED <<vmCmd, vmEndCh, lock, tty, op, pc, ret, cmd, endChL, sel,
                 hyveCalls, nLaunch, pipes, logpc, cancelCh, panicked,
                 lastLive, wfsFor, typistVars, buildVars, versionVars,
                 prepareVars>>

\* Mutant of WatcherLock: the watcher goes on without taking d.lock.
WatcherLockSkipped(l) ==
  /\ ~panicked /\ wpc[l] = "lock"
  /\ wpc' = [wpc EXCEPT ![l] = "clear"]
  /\ UNCHANGED <<vmCmd, vmEndCh, lock, tty, op, pc, ret, cmd, endChL, sel,
                 hyveCalls, nLaunch, proc, chan, sent, pipes, logpc, cancelCh,
                 panicked, lastLive, wfsFor, typistVars, buildVars,
                 versionVars, prepareVars>>

\* Mutant of WatcherLock: the watcher does not wait for the holder of
\* d.lock (Hyve holds it until it returns) before it goes on to clear.
WatcherLockIgnoresHolder(l) ==
  /\ ~panicked /\ wpc[l] = "lock"
  /\ lock' = WatcherId(l)
  /\ wpc' = [wpc EXCEPT ![l] = "clear"]
  /\ UNCHANGED <<vmCmd, vmEndCh, tty, op, pc, ret, cmd, endChL, sel,
                 hyveCalls, nLaunch, proc, chan, sent, pipes, logpc, cancelCh,
                 panicked, lastLive, wfsFor, typistVars, buildVars,
                 versionVars, prepareVars>>

\* driver.go:134: the watcher takes d.lock.
WatcherLock(l) ==
  /\ ~panicked /\ wpc[l] = "lock" /\ lock = "free"
  /\ lock' = WatcherId(l)
  /\ wpc' = [wpc EXCEPT ![l] = "clear"]
  /\ UNCHANGED <<vmCmd, vmEndCh, tty, op, pc, ret, cmd, endChL, sel,
                 hyveCalls, nLaunch, proc, chan, sent, pipes, logpc, cancelCh,
                 panicked, lastLive, wfsFor, typistVars, buildVars,
                 versionVars, prepareVars>>

\* driver.go:135-138: clear the Driver's handle fields and return; the
\* deferred calls run last registered first, d.lock.Unlock() (135) before
\* the closes of the pipes (118, 117). The fields are written with the lock
\* held, so nobody sees them between the assignments and the Unlock.
WatcherClear(l) ==
  /\ ~panicked /\ wpc[l] = "clear"
  /\ vmCmd' = NULL
  /\ vmEndCh' = NULL
  /\ lock' = "free"
  /\ wpc' = [wpc EXCEPT ![l] = "close_stdout"]
  /\ UNCHANGED <<tty, op, pc, ret, cmd, endChL, sel, hyveCalls, nLaunch, proc,
                 chan, sent, pipes, logpc, cancelCh, panicked, lastLive,
                 wfsFor, typistVars, buildVars, versionVars, prepareVars>>

\* driver.go:118: the deferred stdout_w.Close().
WatcherCloseStdout(l) ==
  /\ ~panicked /\ wpc[l] = "close_stdout"
  /\ pipes' = [pipes EXCEPT ![l]["stdout"] = "closed"]
  /\ wpc' = [wpc EXCEPT ![l] = "close_stderr"]
  /\ UNCHANGED <<vmCmd, vmEndCh, lock, tty, op, pc, ret, cmd, endChL, sel,
                 hyveCalls, nLaunch, proc, chan, sent, logpc, cancelCh,
                 panicked, lastLive, wfsFor, typistVars, buildVars,
                 versionVars, prepareVars>>

\* driver.go:117: the deferred stderr_w.Close(); the watcher goroutine ends.
WatcherCloseStderr(l) ==
  /\ ~panicked /\ wpc[l] = "close_stderr"
  /\ pipes' = [pipes EXCEPT ![l]["stderr"] = "closed"]
  /\ wpc' = [wpc EXCEPT ![l] = "done"]
  /\ UNCHANGED <<vmCmd, vmEndCh, lock, tty, op, pc, ret, cmd, endChL, sel,
                 hyveCalls, nLaunch, proc, chan, sent, logpc, cancelCh,
                 panicked, lastLive, wfsFor, typistVars, buildVars,
                 versionVars, prepareVars>>

\* logReader (driver.go:225-238): nothing is ever written to the pipes (the
\* assignments of cmd.Stdout and cmd.Stderr are commented out, driver.go:
\* 89-90), so ReadString blocks until the write end is closed and then
\* returns "" and io.EOF: the loop breaks and the goroutine ends.
logReader(l, s) ==
  /\ ~panicked /\ logpc[l][s] = "reading" /\ pipes[l][s] = "closed"
  /\ logpc' = [logpc EXCEPT ![l][s] = "done"]
  /\ UNCHANGED <<vmCmd, vmEndCh, lock, tty, op, pc, ret, cmd, endChL, sel,
                 hyveCalls, nLaunch, proc, chan, wpc, sent, pipes, cancelCh,
                 panicked, lastLive, wfsFor, typistVars, buildVars,
                 versionVars, prepareVars>>

\* --- Stop (driver.go:61-73) --------------------------------------------

StopCall(t) ==
  /\ Call(t, "Stop")
  /\ UNCHANGED <<vmCmd, vmEndCh, lock, tty, hyveCalls, nLaunch, proc, chan,
                 wpc, sent, pipes, logpc, cancelCh, panicked, lastLive,
                 typistVars, buildVars, versionVars, prepareVars>>

StopLock(t) ==
  /\ Acquire(t, "Stop", "body")
  /\ UNCHANGED <<vmCmd, vmEndCh, tty, op, ret, cmd, endChL, sel, hyveCalls,
                 nLaunch, proc, chan, wpc, sent, pipes, logpc, cancelCh,
                 panicked, lastLive, wfsFor, typistVars, buildVars,
                 versionVars, prepareVars>>

\* Mutant of StopBody: Stop treats a missing handle as a failure.
StopBodyFailsWithoutHandle(t) ==
  /\ ~panicked /\ op[t] = "Stop" /\ pc[t] = "body"
  /\ IF vmCmd = NULL \/ Reaped(vmCmd)
       THEN /\ ret' = [ret EXCEPT ![t] = "err_kill"]
            /\ UNCHANGED proc
       ELSE /\ ret' = [ret EXCEPT ![t] = "nil"]
            /\ proc' = [proc EXCEPT ![vmCmd] =
                          IF @ = "running" THEN "killed" ELSE @]
  /\ pc' = [pc EXCEPT ![t] = "done"]
  /\ lock' = "free"
  /\ UNCHANGED <<vmCmd, vmEndCh, tty, op, cmd, endChL, sel, hyveCalls,
                 nLaunch, chan, wpc, sent, pipes, logpc, cancelCh, panicked,
                 lastLive, wfsFor, typistVars, buildVars, versionVars,
                 prepareVars>>

\* driver.go:65-72: Process.Kill() on the recorded handle. Kill fails once
\* cmd.Wait() has returned ("os: process already finished"); SIGKILL ends a
\* running process; on an exited, unreaped one it changes nothing.
StopBody(t) ==
  /\ ~panicked /\ op[t] = "Stop" /\ pc[t] = "body"
  /\ IF vmCmd = NULL
       THEN /\ ret' = [ret EXCEPT ![t] = "nil"]
            /\ UNCHANGED proc
       ELSE IF Reaped(vmCmd)
         THEN /\ ret' = [ret EXCEPT ![t] = "err_kill"]
              /\ UNCHANGED proc
         ELSE /\ ret' = [ret EXCEPT ![t] = "nil"]
              /\ proc' = [proc EXCEPT ![vmCmd] =
                            IF @ = "running" THEN "killed" ELSE @]
  /\ pc' = [pc EXCEPT ![t] = "done"]
  /\ lock' = "free"
  /\ UNCHANGED <<vmCmd, vmEndCh, tty, op, cmd, endChL, sel, hyveCalls,
                 nLaunch, chan, wpc, sent, pipes, logpc, cancelCh, panicked,
                 lastLive, wfsFor, typistVars, buildVars, versionVars,
                 prepareVars>>

\* --- WaitForShutdown (driver.go:161-176) -------------------------------

WfsCall(t) ==
  /\ Call(t, "Wait")
  /\ UNCHANGED <<vmCmd, vmEndCh, lock, tty, hyveCalls, nLaunch, proc, chan,
                 wpc, sent, pipes, logpc, cancelCh, panicked, lastLive,
                 typistVars, buildVars, versionVars, prepareVars>>

WfsLock(t) ==
  /\ Acquire(t, "Wait", "read")
  /\ UNCHANGED <<vmCmd, vmEndCh, tty, op, ret, cmd, endChL, sel, hyveCalls,
                 nLaunch, proc, chan, wpc, sent, pipes, logpc, cancelCh,
                 panicked, lastLive, wfsFor, typistVars, buildVars,
                 versionVars, prepareVars>>

\* Mutant of WfsRead: the lock is released by a deferred Unlock, so it is
\* still held while the call waits in its select.
WfsReadDefersUnlock(t) ==
  /\ ~panicked /\ op[t] = "Wait" /\ pc[t] = "read"
  /\ endChL' = [endChL EXCEPT ![t] = vmEndCh]
  /\ IF vmEndCh = NULL
       THEN /\ pc' = [pc EXCEPT ![t] = "done"]
            /\ ret' = [ret EXCEPT ![t] = "true"]
            /\ lock' = "free"
       ELSE /\ pc' = [pc EXCEPT ![t] = "select"]
            /\ UNCHANGED <<ret, lock>>
  /\ UNCHANGED <<vmCmd, vmEndCh, tty, op, cmd, sel, hyveCalls, nLaunch, proc,
                 chan, wpc, sent, pipes, logpc, cancelCh, panicked, lastLive,
                 wfsFor, typistVars, buildVars, versionVars, prepareVars>>

\* driver.go:163-168: copy d.vmEndCh, unlock; a nil channel means "already
\* shut down".
WfsRead(t) ==
  /\ ~panicked /\ op[t] = "Wait" /\ pc[t] = "read"
  /\ endChL' = [endChL EXCEPT ![t] = vmEndCh]
  /\ lock' = "free"
  /\ IF vmEndCh = NULL
       THEN /\ pc' = [pc EXCEPT ![t] = "done"]
            /\ ret' = [ret EXCEPT ![t] = "true"]
       ELSE /\ pc' = [pc EXCEPT ![t] = "select"]
            /\ UNCHANGED ret
  /\ UNCHANGED <<vmCmd, vmEndCh, tty, op, cmd, sel, hyveCalls, nLaunch, proc,
                 chan, wpc, sent, pipes, logpc, cancelCh, panicked, lastLive,
                 wfsFor, typistVars, buildVars, versionVars, prepareVars>>

\* driver.go:170-172: the exit code arrives on endCh.
WfsSelectEnd(t) ==
  /\ ~panicked /\ op[t] = "Wait" /\ pc[t] = "select"
  /\ chan[endChL[t]] # <<>>
  /\ chan' = [chan EXCEPT ![endChL[t]] = Tail(@)]
  /\ pc' = [pc EXCEPT ![t] = "done"]
  /\ ret' = [ret EXCEPT ![t] = "true"]
  /\ UNCHANGED <<vmCmd, vmEndCh, lock, tty, op, cmd, endChL, sel, hyveCalls,
                 nLaunch, proc, wpc, sent, pipes, logpc, cancelCh, panicked,
                 lastLive, wfsFor, typistVars, buildVars, versionVars,
                 prepareVars>>

\* driver.go:173-174: the cancel channel is ready.
WfsSelectCancel(t) ==
  /\ ~panicked /\ op[t] = "Wait" /\ pc[t] = "select"
  /\ cancelCh
  /\ pc' = [pc EXCEPT ![t] = "done"]
  /\ ret' = [ret EXCEPT ![t] = "false"]
  /\ UNCHANGED <<vmCmd, vmEndCh, lock, tty, op, cmd, endChL, sel, hyveCalls,
                 nLaunch, proc, chan, wpc, sent, pipes, logpc, cancelCh,
                 panicked, lastLive, wfsFor, typistVars, buildVars,
                 versionVars, prepareVars>>

\* The caller of WaitForShutdown closes the cancel channel (observable only
\* by a WaitForShutdown that is blocked in its select).
CancelWait ==
  /\ ~panicked /\ ~cancelCh
  /\ \E t \in Threads : op[t] = "Wait" /\ pc[t] = "select"
  /\ cancelCh' = TRUE
  /\ UNCHANGED <<vmCmd, vmEndCh, lock, tty, op, pc, ret, cmd, endChL, sel,
                 hyveCalls, nLaunch, proc, chan, wpc, sent, pipes, logpc,
                 panicked, lastLive, wfsFor, typistVars, buildVars,
                 versionVars, prepareVars>>

\* ======================================================================
\* Serial typist and the type-boot-command step
\* (builder/hyve/step_type_boot_command.go)
\* ======================================================================

\* The pipeline (builder/hyve/step_run.go:376-405).
Steps == <<"download", "prepare_output_dir", "create_disk", "http_server",
           "run", "boot_wait", "type_boot_command">>

\* The thread that runs Builder.Run and with it every step.
BuildThread == "t1"

\* Text is a sequence of bytes. The three directives:
WAIT   == <<60, 119, 97, 105, 116, 62>>            \* "<wait>"
WAIT5  == <<60, 119, 97, 105, 116, 53, 62>>        \* "<wait5>"
WAIT10 == <<60, 119, 97, 105, 116, 49, 48, 62>>    \* "<wait10>"

\* Pieces the command texts are built from: the directives, "<wait" (a '<'
\* that starts no directive), "a", U+00E9 in UTF-8, and a lone lead byte
\* (invalid UTF-8).
Tokens == {WAIT, WAIT5, WAIT10, <<60, 119, 97, 105, 116>>, <<97>>, <<195, 169>>, <<195>>}

RECURSIVE TextsOf(_)
TextsOf(n) == IF n = 0 THEN {<<>>}
              ELSE {s \o t : s \in TextsOf(n - 1), t \in Tokens}

\* A rendered line of n tokens; a line of the configuration may also fail
\* to render.
LineChoices(n) ==
  {[ok |-> TRUE, text |-> s] : s \in TextsOf(n)}
    \cup (IF n = 0 THEN {[ok |-> FALSE, text |-> <<>>]} ELSE {})

\* Boot commands of at most k lines and n tokens in all.
RECURSIVE Commands(_, _)
Commands(n, k) ==
  IF k = 0 THEN {<<>>}
  ELSE {<<>>} \cup
       UNION {{<<l>> \o rest : l \in LineChoices(j), rest \in Commands(n - j, k - 1)} :
                j \in 0..n}

\* utf8.RuneError
RuneError == 65533

\* strings.HasPrefix
HasPrefix(s, p) == Len(s) >= Len(p) /\ SubSeq(s, 1, Len(p)) = p

\* utf8.DecodeRuneInString (step_type_boot_command.go:163): the first rune of
\* s and its width in bytes; (RuneError, 1) for an invalid or incomplete
\* encoding, (RuneError, 0) for the empty string.
Cont(b) == b >= 128 /\ b <= 191

\* Mutant of DecodeRuneInString: an invalid or incomplete encoding is
\* reported with width 0, as the empty string is.
DecodeRuneInStringZeroWidth(s) ==
  IF Len(s) > 0 /\ s[1] < 128 THEN [r |-> s[1], size |-> 1]
  ELSE IF Len(s) >= 2 /\ s[1] >= 194 /\ s[1] <= 223 /\ Cont(s[2])
    THEN [r |-> (s[1] % 32) * 64 + (s[2] % 64), size |-> 2]
  ELSE [r |-> RuneError, size |-> 0]

DecodeRuneInString(s) ==
  LET n    == Len(s)
      bad  == [r |-> RuneError, size |-> 1]
  IN  IF n = 0 THEN [r |-> RuneError, size |-> 0]
      ELSE IF s[1] < 128 THEN [r |-> s[1], size |-> 1]
      ELSE IF s[1] >= 194 /\ s[1] <= 223 THEN
             IF n >= 2 /\ Cont(s[2])
               THEN [r |-> (s[1] % 32) * 64 + (s[2] % 64), size |-> 2]
               ELSE bad
      ELSE IF s[1] >= 224 /\ s[1] <= 239 THEN
             LET lo == IF s[1] = 224 THEN 160 ELSE 128
                 hi == IF s[1] = 237 THEN 159 ELSE 191
             IN  IF n >= 3 /\ s[2] >= lo /\ s[2] <= hi /\ Cont(s[3])
                   THEN [r |-> (s[1] % 16) * 4096 + (s[2] % 64) * 64 + (s[3] % 64),
                         size |-> 3]
                   ELSE bad
      ELSE IF s[1] >= 240 /\ s[1] <= 244 THEN
             LET lo == IF s[1] = 240 THEN 144 ELSE 128
                 hi == IF s[1] = 244 THEN 143 ELSE 191
             IN  IF n >= 4 /\ s[2] >= lo /\ s[2] <= hi /\ Cont(s[3]) /\ Cont(s[4])
                   THEN [r |-> (s[1] % 8) * 262144 + (s[2] % 64) * 4096
                                 + (s[3] % 64) * 64 + (s[4] % 64),
                         size |-> 4]
                   ELSE bad
      ELSE bad

\* key = byte(r) (step_type_boot_command.go:165)
ByteOf(r) == r % 256

\* Mutant of Rest: the scan advances one byte whatever the rune's width.
RestOneByte(s, size) == SubSeq(s, 2, Len(s))

\* original[size:] (step_type_boot_command.go:135,142,149,164)
Rest(s, size) == SubSeq(s, size + 1, Len(s))

\* Mutant of Directive: the <wait5> and <wait10> branches drop the length
\* of "<wait>" (the slice expression copied from the first branch).
DirectiveCopiedSlice(s) ==
  IF HasPrefix(s, WAIT) THEN [len |-> Len(WAIT), ms |-> 1000]
  ELSE IF HasPrefix(s, WAIT5) THEN [len |-> Len(WAIT), ms |-> 5000]
  ELSE IF HasPrefix(s, WAIT10) THEN [len |-> Len(WAIT), ms |-> 10000]
  ELSE [len |-> 0, ms |-> 0]

\* The directive at the head of s, tested in the order of the code
\* (step_type_boot_command.go:132-151): its length and its sleep in ms.
Directive(s) ==
  IF HasPrefix(s, WAIT) THEN [len |-> Len(WAIT), ms |-> 1000]
  ELSE IF HasPrefix(s, WAIT5) THEN [len |-> Len(WAIT5), ms |-> 5000]
  ELSE IF HasPrefix(s, WAIT10) THEN [len |-> Len(WAIT10), ms |-> 10000]
  ELSE [len |-> 0, ms |-> 0]

Sleep(ms)       == [ev |-> "sleep", arg |-> ms, ok |-> TRUE]
Write(key, ok)  == [ev |-> "write", arg |-> key, ok |-> ok]

InTypeStep == rpc = "step" /\ Steps[idx] = "type_boot_command"

\* stepTypeBootCommand.Run up to the opening of the serial port
\* (step_type_boot_command.go:42-70). goserial.OpenPort fails on the empty
\* device name of an undiscovered tty, and may fail on any other.
TypeRun ==
  /\ ~panicked /\ InTypeStep /\ spc = "idle"
  /\ \E ok \in BOOLEAN :
       /\ ok => tty # NULL
       /\ IF ok
            THEN /\ spc' = "loop"
                 /\ lineIdx' = 1
                 /\ UNCHANGED <<bagErr, stepAction>>
            ELSE /\ bagErr' = "Error connecting"
                 /\ stepAction' = "Halt"
                 /\ spc' = "done"
                 /\ UNCHANGED lineIdx
  /\ UNCHANGED <<driverVars, bootCommand, original, tlog, lineFrom, writeErrs,
                 rpc, runnerSet, idx, ran, cleaned, bagCancelled, bagHalted,
                 bagKeys, bagDisk, outputDir, artifact, result, haltedAt,
                 haltCause, cancelAt, cancelLost, versionVars, prepareVars>>

\* Mutant of TypeNextLine: the loop does not look at the cancellation.
TypeNextLineNoCancelCheck ==
  /\ ~panicked /\ InTypeStep /\ spc = "loop"
  /\ IF lineIdx > Len(bootCommand)
       THEN /\ stepAction' = "Continue"
            /\ spc' = "done"
            /\ UNCHANGED <<bagErr, original, lineFrom>>
       ELSE IF ~bootCommand[lineIdx].ok
         THEN /\ bagErr' = "Error preparing boot command"
              /\ stepAction' = "Halt"
              /\ spc' = "done"
              /\ UNCHANGED <<original, lineFrom>>
         ELSE /\ original' = bootCommand[lineIdx].text
              /\ lineFrom' = Len(tlog)
              /\ spc' = "typing"
              /\ UNCHANGED <<bagErr, stepAction>>
  /\ UNCHANGED <<driverVars, bootCommand, lineIdx, tlog, writeErrs, rpc,
                 runnerSet, idx, ran, cleaned, bagCancelled, bagHalted,
                 bagKeys, bagDisk, outputDir, artifact, result, haltedAt,
                 haltCause, cancelAt, cancelLost, versionVars, prepareVars>>

\* One turn of the range loop (step_type_boot_command.go:71-86), up to the
\* call of ttySendString, or the return after the last line (line 88).
TypeNextLine ==
  /\ ~panicked /\ InTypeStep /\ spc = "loop"
  /\ IF lineIdx > Len(bootCommand)
       THEN /\ stepAction' = "Continue"
            /\ spc' = "done"
            /\ UNCHANGED <<bagErr, original, lineFrom>>
       ELSE IF ~bootCommand[lineIdx].ok
         THEN /\ bagErr' = "Error preparing boot command"
              /\ stepAction' = "Halt"
              /\ spc' = "done"
              /\ UNCHANGED <<original, lineFrom>>
         ELSE IF bagCancelled
           THEN /\ stepAction' = "Halt"
                /\ spc' = "done"
                /\ UNCHANGED <<bagErr, original, lineFrom>>
           ELSE /\ original' = bootCommand[lineIdx].text
                /\ lineFrom' = Len(tlog)
                /\ spc' = "typing"
                /\ UNCHANGED <<bagErr, stepAction>>
  /\ UNCHANGED <<driverVars, bootCommand, lineIdx, tlog, writeErrs, rpc,
                 runnerSet, idx, ran, cleaned, bagCancelled, bagHalted,
                 bagKeys, bagDisk, outputDir, artifact, result, haltedAt,
                 haltCause, cancelAt, cancelLost, versionVars, prepareVars>>

\* ttySendString, one turn of its loop on a directive
\* (step_type_boot_command.go:132-151): sleep, drop the directive, continue.
ttySendStringWait ==
  /\ ~panicked /\ InTypeStep /\ spc = "typing" /\ Len(original) > 0
  /\ Directive(original).len > 0
  /\ tlog' = Append(tlog, Sleep(Directive(original).ms))
  /\ original' = Rest(original, Directive(original).len)
  /\ UNCHANGED <<driverVars, bootCommand, lineIdx, lineFrom, spc, stepAction,
                 writeErrs, buildVars, versionVars, prepareVars>>

\* ttySendString, one turn of its loop on a character
\* (step_type_boot_command.go:162-187): decode one rune, send its low byte
\* with ttySendKey (lines 191-201: one Write of one byte, whose error
\* ttySendString does not look at), sleep 100ms.
ttySendStringChar ==
  /\ ~panicked /\ InTypeStep /\ spc = "typing" /\ Len(original) > 0
  /\ Directive(original).len = 0
  /\ \E ok \in BOOLEAN :
       /\ ~ok => writeErrs < MaxWriteErrs
       /\ writeErrs' = IF ok THEN writeErrs ELSE writeErrs + 1
       /\ tlog' = tlog \o <<Write(ByteOf(DecodeRuneInString(original).r), ok), Sleep(100)>>
  /\ original' = Rest(original, DecodeRuneInString(original).size)
  /\ UNCHANGED <<driverVars, bootCommand, lineIdx, lineFrom, spc, stepAction,
                 buildVars, versionVars, prepareVars>>

\* ttySendString returns (it has no result) and the range loop moves on.
ttySendStringReturn ==
  /\ ~panicked /\ InTypeStep /\ spc = "typing" /\ Len(original) = 0
  /\ spc' = "loop"
  /\ lineIdx' = lineIdx + 1
  /\ UNCHANGED <<driverVars, bootCommand, original, tlog, lineFrom,
                 stepAction, writeErrs, buildVars, versionVars, prepareVars>>

InitTypistVars ==
  /\ lineIdx = 0 /\ original = <<>> /\ tlog = <<>> /\ lineFrom = 0
  /\ spc = "idle" /\ stepAction = "none" /\ writeErrs = 0

\* ======================================================================
\* Builder.Run and the step pipeline (builder/hyve/step_run.go)
\* ======================================================================

\* Steps whose sources are not part of the modelled files; they follow the
\* step contract of the specification: Run returns Continue after putting
\* its result key, or records an error and returns Halt, or returns Halt
\* without an error when it sees the cancellation.
SpecSteps == {"download", "prepare_output_dir", "create_disk", "http_server", "boot_wait"}

PutsKey(step) ==
  CASE step = "download"    -> {"iso_path"}
    [] step = "create_disk" -> {"disk_filename"}
    [] step = "http_server" -> {"http_port"}
    [] OTHER                -> {}

\* The disk file names create-disk may put under disk_filename.
DiskNames == {"packer-hyve", "vm.qcow2"}

NoResult == [artifact |-> FALSE, err |-> "none"]

\* An entry of the file system: Lstat's answer for it (a file, a symlink,
\* a directory, or gone: Lstat fails), whether its names can be read, and
\* the entries under it in the order of their names.
Entry(name, kind, readable, kids) ==
  [name |-> name, kind |-> kind, readable |-> readable, kids |-> kids]
File(name) == Entry(name, "file", TRUE, <<>>)
Symlink(name) == Entry(name, "symlink", TRUE, <<>>)
Gone(name) == Entry(name, "gone", FALSE, <<>>)
Dir(name, kids) == Entry(name, "dir", TRUE, kids)
LockedDir(name, kids) == Entry(name, "dir", FALSE, kids)

\* The output directory as the walk may find it after the steps have run.
OutputTrees ==
  { Dir("out", <<>>),
    Dir("out", <<File("a"), Dir("b", <<File("c")>>)>>),
    Dir("out", <<Dir("b", <<Dir("c", <<File("d"), Dir("e", <<>>)>>)>>), File("f")>>),
    Dir("out", <<File("a"), Symlink("l"), Dir("s", <<>>)>>),
    Dir("out", <<File("a"), LockedDir("b", <<File("c")>>), File("d")>>),
    LockedDir("out", <<File("a")>>),
    Dir("out", <<File("a"), Gone("b"), File("c")>>),
    Gone("out") }

NoArtifact ==
  [f |-> <<>>, state |-> [diskName |-> "", diskFormat |-> "", diskSize |-> 0]]

InitBuildVars ==
  /\ rpc = "idle" /\ runnerSet = FALSE /\ idx = 1
  /\ ran = <<>> /\ cleaned = <<>>
  /\ bagErr = "none" /\ bagCancelled = FALSE /\ bagHalted = FALSE /\ bagKeys = {}
  /\ bagDisk = "" /\ outputDir = Gone("out") /\ artifact = NoArtifact
  /\ result = NoResult
  /\ haltedAt = 0 /\ haltCause = "none"
  /\ cancelAt = [k |-> -1, inStep |-> FALSE] /\ cancelLost = FALSE

\* Builder.Run up to the creation of the runner (step_run.go:367-414):
\* newDriver fails when a binary is not found; otherwise the steps and the
\* state bag are set up.
BuilderRun ==
  /\ ~panicked /\ rpc = "idle"
  /\ \E ok \in BOOLEAN :
       IF ok
         THEN /\ rpc' = "setup"
              /\ UNCHANGED result
         ELSE /\ result' = [artifact |-> FALSE, err |-> "Failed creating bhyve/xhyve driver"]
              /\ rpc' = "done"
  /\ UNCHANGED <<driverVars, typistVars, runnerSet, idx, ran, cleaned, bagErr,
                 bagCancelled, bagHalted, bagKeys, bagDisk, outputDir,
                 artifact, haltedAt, haltCause, cancelAt, cancelLost,
                 versionVars, prepareVars>>

\* Builder.Run sets b.runner and calls its Run (step_run.go:416-425).
BuilderSetRunner ==
  /\ ~panicked /\ rpc = "setup"
  /\ runnerSet' = TRUE
  /\ rpc' = "run"
  /\ UNCHANGED <<driverVars, typistVars, idx, ran, cleaned, bagErr,
                 bagCancelled, bagHalted, bagKeys, bagDisk, outputDir,
                 artifact, result, haltedAt, haltCause, cancelAt, cancelLost,
                 versionVars, prepareVars>>

\* Builder.Cancel (step_run.go:468-473) while Builder.Run is under way: with
\* b.runner set the cancellation signal is raised and the runner marks the
\* state bag; with b.runner still nil the call does nothing.
Cancel ==
  /\ ~panicked /\ rpc \in {"setup", "run", "step", "cleanup"}
  /\ ~bagCancelled
  /\ IF runnerSet
       THEN /\ bagCancelled' = TRUE
            /\ cancelAt' = [k |-> Len(ran), inStep |-> (rpc = "step")]
            /\ UNCHANGED cancelLost
       ELSE /\ ~cancelLost
            /\ cancelLost' = TRUE
            /\ UNCHANGED <<bagCancelled, cancelAt>>
  /\ UNCHANGED <<driverVars, typistVars, rpc, runnerSet, idx, ran, cleaned,
                 bagErr, bagHalted, bagKeys, bagDisk, outputDir, artifact,
                 result, haltedAt, haltCause, versionVars, prepareVars>>

\* Mutant of AfterStep: a Halt does not stop the pipeline.
AfterStepIgnoresHalt(a, cause) ==
  /\ haltedAt' = IF a = "Halt" THEN idx ELSE haltedAt
  /\ haltCause' = IF a = "Halt" THEN cause ELSE haltCause
  /\ IF bagCancelled
       THEN /\ rpc' = "cleanup"
            /\ UNCHANGED <<bagHalted, idx>>
       ELSE /\ rpc' = "run"
            /\ idx' = idx + 1
            /\ UNCHANGED bagHalted

\* The runner after a step's Run returned a: a cancellation seen in the
\* state bag stops the pipeline; a Halt marks the bag and stops it;
\* otherwise the next step is due.
AfterStep(a, cause) ==
  /\ haltedAt' = IF a = "Halt" THEN idx ELSE haltedAt
  /\ haltCause' = IF a = "Halt" THEN cause ELSE haltCause
  /\ IF bagCancelled
       THEN /\ rpc' = "cleanup"
            /\ UNCHANGED <<bagHalted, idx>>
       ELSE IF a = "Halt"
         THEN /\ bagHalted' = TRUE
              /\ rpc' = "cleanup"
              /\ UNCHANGED idx
         ELSE /\ rpc' = "run"
              /\ idx' = idx + 1
              /\ UNCHANGED bagHalted

\* Mutant of RunnerStops: the runner does not look at the cancellation
\* before it starts a step.
RunnerStopsNoCancel == idx > Len(Steps)

\* The runner stops before the next step: no step is left, or the
\* cancellation signal was raised.
RunnerStops == idx > Len(Steps) \/ bagCancelled

\* The runner calls the next step's Run and defers its Cleanup.
StepBegin ==
  /\ ~panicked /\ rpc = "run" /\ ~RunnerStops
  /\ rpc' = "step"
  /\ ran' = Append(ran, idx)
  /\ UNCHANGED <<driverVars, typistVars, runnerSet, idx, cleaned, bagErr,
                 bagCancelled, bagHalted, bagKeys, bagDisk, outputDir,
                 artifact, result, haltedAt, haltCause, cancelAt, cancelLost,
                 versionVars, prepareVars>>

\* The runner leaves its loop.
RunnerBreak ==
  /\ ~panicked /\ rpc = "run" /\ RunnerStops
  /\ rpc' = "cleanup"
  /\ UNCHANGED <<driverVars, typistVars, runnerSet, idx, ran, cleaned, bagErr,
                 bagCancelled, bagHalted, bagKeys, bagDisk, outputDir,
                 artifact, result, haltedAt, haltCause, cancelAt, cancelLost,
                 versionVars, prepareVars>>

\* Run of a step that follows the step contract.
StepRunSpec ==
  /\ ~panicked /\ rpc = "step" /\ Steps[idx] \in SpecSteps
  /\ \E out \in {"continue", "error"} \cup (IF bagCancelled THEN {"cancel"} ELSE {}) :
       /\ bagKeys' = IF out = "continue" THEN bagKeys \cup PutsKey(Steps[idx]) ELSE bagKeys
       /\ IF out = "continue" /\ "disk_filename" \in PutsKey(Steps[idx])
            THEN bagDisk' \in DiskNames
            ELSE UNCHANGED bagDisk
       /\ bagErr' = IF out = "error" THEN "Error in step" ELSE bagErr
       /\ AfterStep(IF out = "continue" THEN "Continue" ELSE "Halt", out)
  /\ UNCHANGED <<driverVars, typistVars, runnerSet, ran, cleaned,
                 bagCancelled, outputDir, artifact, result, cancelAt,
                 cancelLost, versionVars, prepareVars>>

InRunStep == rpc = "step" /\ Steps[idx] = "run"

\* The error stepRun.Run leaves in the state bag before it returns Halt
\* (step_run.go:33-37, 39-43): it reports to the ui only.
StepRunError(e) == bagErr

\* stepRun.Run (step_run.go:26-37): getCommandArgs fails to render a
\* HyveArgs entry; the step returns Halt.
stepRunArgsFail ==
  /\ ~panicked /\ InRunStep /\ pc[BuildThread] = "idle"
  /\ bagErr' = StepRunError("Error processing HyveArgs")
  /\ AfterStep("Halt", "error")
  /\ UNCHANGED <<driverVars, typistVars, runnerSet, ran, cleaned,
                 bagCancelled, bagKeys, bagDisk, outputDir, artifact, result,
                 cancelAt, cancelLost, versionVars, prepareVars>>

\* stepRun.Run (step_run.go:32, 39): the arguments are assembled and
\* driver.Hyve is called.
stepRunCallHyve ==
  /\ InRunStep /\ pc[BuildThread] = "idle"
  /\ HyveCall(BuildThread)

\* stepRun.Run (step_run.go:39-47): driver.Hyve has returned.
stepRunReturn ==
  /\ ~panicked /\ InRunStep /\ op[BuildThread] = "Hyve" /\ pc[BuildThread] = "done"
  /\ IF ret[BuildThread] = "nil"
       THEN /\ AfterStep("Continue", "none")
            /\ UNCHANGED bagErr
       ELSE /\ bagErr' = StepRunError("Error launching VM")
            /\ AfterStep("Halt", "error")
  /\ UNCHANGED <<driverVars, typistVars, runnerSet, ran, cleaned,
                 bagCancelled, bagKeys, bagDisk, outputDir, artifact, result,
                 cancelAt, cancelLost, versionVars, prepareVars>>

\* stepTypeBootCommand.Run has returned its action to the runner.
TypeReturn ==
  /\ ~panicked /\ InTypeStep /\ spc = "done"
  /\ AfterStep(stepAction, IF bagErr # "none" THEN "error" ELSE "cancel")
  /\ UNCHANGED <<driverVars, typistVars, runnerSet, ran, cleaned, bagErr,
                 bagCancelled, bagKeys, bagDisk, outputDir, artifact, result,
                 cancelAt, cancelLost, versionVars, prepareVars>>


\* The step whose deferred Cleanup runs next (last deferred, first run).
NextCleanup == ran[Len(ran) - Len(cleaned)]

InCleanup == rpc = "cleanup" /\ Len(cleaned) < Len(ran)

\* Cleanup of a step other than run-VM (stepTypeBootCommand.Cleanup,
\* step_type_boot_command.go:91, is empty).
StepCleanup ==
  /\ ~panicked /\ InCleanup /\ Steps[NextCleanup] # "run"
  /\ cleaned' = Append(cleaned, NextCleanup)
  /\ UNCHANGED <<driverVars, typistVars, rpc, runnerSet, idx, ran, bagErr,
                 bagCancelled, bagHalted, bagKeys, bagDisk, outputDir,
                 artifact, result, haltedAt, haltCause, cancelAt, cancelLost,
                 versionVars, prepareVars>>

\* stepRun.Cleanup (step_run.go:50-54) calls driver.Stop.
stepRunCleanupCall ==
  /\ InCleanup /\ Steps[NextCleanup] = "run" /\ op[BuildThread] # "Stop"
  /\ StopCall(BuildThread)

\* stepRun.Cleanup (step_run.go:54-57): driver.Stop has returned; an error
\* is only reported.
stepRunCleanupReturn ==
  /\ ~panicked /\ InCleanup /\ Steps[NextCleanup] = "run"
  /\ op[BuildThread] = "Stop" /\ pc[BuildThread] = "done"
  /\ cleaned' = Append(cleaned, NextCleanup)
  /\ UNCHANGED <<driverVars, typistVars, rpc, runnerSet, idx, ran, bagErr,
                 bagCancelled, bagHalted, bagKeys, bagDisk, outputDir,
                 artifact, result, haltedAt, haltCause, cancelAt, cancelLost,
                 versionVars, prepareVars>>

\* runner.Run returns once every deferred Cleanup has run.
RunnerReturn ==
  /\ ~panicked /\ rpc = "cleanup" /\ Len(cleaned) = Len(ran)
  /\ rpc' = "finish"
  /\ UNCHANGED <<driverVars, typistVars, runnerSet, idx, ran, cleaned, bagErr,
                 bagCancelled, bagHalted, bagKeys, bagDisk, outputDir,
                 artifact, result, haltedAt, haltCause, cancelAt, cancelLost,
                 versionVars, prepareVars>>

\* visit (step_run.go:443-449): info.IsDir() on the nil FileInfo that Walk
\* passes with an Lstat error panics; a directory is not listed; the error
\* passed in is returned.
VisitListsAll(files, path, info, err) ==
  IF info.kind = "gone" THEN [f |-> files, err |-> err, panic |-> TRUE]
  ELSE [f |-> Append(files, path), err |-> err, panic |-> FALSE]

visit(files, path, info, err) ==
  IF info.kind = "gone" THEN [f |-> files, err |-> err, panic |-> TRUE]
  ELSE [f |-> IF info.kind # "dir" THEN Append(files, path) ELSE files,
        err |-> err, panic |-> FALSE]

\* filepath.walk: visit the entry; for a directory read its names (on an
\* error visit it again with the error), then Lstat and walk each name in
\* order (on an Lstat error visit the name with a nil FileInfo); stop at the
\* first error visit returns.
RECURSIVE walk(_, _, _), walkNames(_, _, _, _)
walk(files, path, info) ==
  LET v == visit(files, path, info, "nil")
  IN  IF v.panic \/ v.err # "nil" \/ info.kind # "dir" THEN v
      ELSE IF ~info.readable THEN visit(v.f, path, info, "readdir")
      ELSE walkNames(v.f, path, info.kids, 1)

walkNames(files, path, kids, i) ==
  IF i > Len(kids) THEN [f |-> files, err |-> "nil", panic |-> FALSE]
  ELSE LET filename == Append(path, kids[i].name)
           r == IF kids[i].kind = "gone"
                  THEN visit(files, filename, kids[i], "lstat")
                  ELSE walk(files, filename, kids[i])
       IN  IF r.panic \/ r.err # "nil" THEN r
           ELSE walkNames(r.f, path, kids, i + 1)

\* filepath.Walk(b.config.OutputDir, visit) (step_run.go:451): Lstat of the
\* root failing is a visit of the root with a nil FileInfo.
Walk(root) ==
  IF root.kind = "gone" THEN visit(<<>>, <<root.name>>, root, "lstat")
  ELSE walk(<<>>, <<root.name>>, root)

\* step_run.go:455-465: the artifact of the files listed; the type assertion
\* on a missing disk_filename panics.
ArtifactOf(files, keys, disk, config) ==
  [panic |-> "disk_filename" \notin keys,
   artifact |-> [f |-> files,
                 state |-> [diskName |-> disk, diskFormat |-> config.Format,
                            diskSize |-> config.DiskSize]]]

\* Builder.Run after runner.Run (step_run.go:427-466).
BuilderFinish ==
  /\ ~panicked /\ rpc = "finish"
  /\ rpc' = "done"
  /\ IF bagErr # "none"
       THEN /\ result' = [artifact |-> FALSE, err |-> bagErr]
            /\ UNCHANGED <<outputDir, artifact, panicked>>
       ELSE IF bagCancelled
         THEN /\ result' = [artifact |-> FALSE, err |-> "Build was cancelled."]
              /\ UNCHANGED <<outputDir, artifact, panicked>>
         ELSE IF bagHalted
           THEN /\ result' = [artifact |-> FALSE, err |-> "Build was halted."]
                /\ UNCHANGED <<outputDir, artifact, panicked>>
           ELSE \E tree \in OutputTrees :
                  LET w == Walk(tree)
                      a == ArtifactOf(w.f, bagKeys, bagDisk, prepConf)
                  IN  /\ outputDir' = tree
                      /\ panicked' = (w.panic \/ (w.err = "nil" /\ a.panic))
                      /\ IF w.panic \/ (w.err = "nil" /\ a.panic)
                           THEN UNCHANGED <<result, artifact>>
                           ELSE IF w.err # "nil"
                             THEN /\ result' = [artifact |-> FALSE, err |-> "walk error"]
                                  /\ UNCHANGED artifact
                             ELSE /\ result' = [artifact |-> TRUE, err |-> "none"]
                                  /\ artifact' = a.artifact
  /\ UNCHANGED <<vmCmd, vmEndCh, lock, tty, op, pc, ret, cmd, endChL, sel,
                 hyveCalls, nLaunch, proc, chan, wpc, sent, pipes, logpc,
                 cancelCh, lastLive, wfsFor, typistVars, runnerSet, idx, ran,
                 cleaned, bagErr, bagCancelled, bagHalted, bagKeys, bagDisk,
                 haltedAt, haltCause, cancelAt, cancelLost, versionVars,
                 prepareVars>>

\* ======================================================================
\* HyveDriver.Version (builder/hyve/driver.go:204-223)
\* ======================================================================

\* Text is a sequence of characters, each its Unicode code point.
HyveColon == <<104, 121, 118, 101, 58, 32>>    \* "hyve: "

\* Pieces the version outputs are built from: "xhyve: ", "bhyve: ", a
\* digit, a dot and a space.
VerTokens == {<<120>> \o HyveColon, <<98>> \o HyveColon, <<49>>, <<46>>, <<32>>}

RECURSIVE VerTextsUpTo(_)
VerTextsUpTo(n) ==
  IF n = 0 THEN {<<>>}
  ELSE LET shorter == VerTextsUpTo(n - 1)
       IN  shorter \cup {s \o t : s \in shorter, t \in VerTokens}

\* unicode.IsSpace, which strings.TrimSpace trims by: '\t', '\n', '\v',
\* '\f', '\r', ' ', U+0085, U+00A0 and the characters of category Z
\* (U+1680, U+2000..U+200A, U+2028, U+2029, U+202F, U+205F, U+3000).
IsSpace(c) ==
  \/ c \in 9..13 \/ c = 32 \/ c = 133 \/ c = 160
  \/ c = 5760 \/ c \in 8192..8202 \/ c \in {8232, 8233, 8239, 8287, 12288}

\* [0-9] of versionRe
IsDigit(c) == c \in 48..57

\* strings.TrimSpace (driver.go:213)
RECURSIVE TrimLeft(_)
TrimLeft(s) == IF s # <<>> /\ IsSpace(Head(s)) THEN TrimLeft(Tail(s)) ELSE s

RECURSIVE TrimRight(_)
TrimRight(s) ==
  IF s # <<>> /\ IsSpace(s[Len(s)]) THEN TrimRight(SubSeq(s, 1, Len(s) - 1)) ELSE s

TrimSpace(s) == TrimRight(TrimLeft(s))

\* The position after the longest run of digits of s that starts at i
\* (i itself when s has no digit there): the greedy [0-9]+.
RECURSIVE DigitsEnd(_, _)
DigitsEnd(s, i) == IF i <= Len(s) /\ IsDigit(s[i]) THEN DigitsEnd(s, i + 1) ELSE i

\* versionRe (driver.go:215), "[bx]hyve: [0-9]+\.[0-9]+\.[0-9]+", matched
\* at position i of s: the position after the match, or 0 for no match.
MatchEndAt(s, i) ==
  IF ~( /\ i + 6 <= Len(s)
        /\ s[i] \in {98, 120}
        /\ SubSeq(s, i + 1, i + 6) = HyveColon )
    THEN 0
  ELSE LET a == DigitsEnd(s, i + 7)
       IN  IF a = i + 7 \/ a > Len(s) \/ s[a] # 46 THEN 0
           ELSE LET b == DigitsEnd(s, a + 1)
                IN  IF b = a + 1 \/ b > Len(s) \/ s[b] # 46 THEN 0
                    ELSE LET c == DigitsEnd(s, b + 1)
                         IN  IF c = b + 1 THEN 0 ELSE c

\* The leftmost match of versionRe in s: [from, to) or from = 0 for none.
FindIndex(s) ==
  LET starts == {i \in 1..Len(s) : MatchEndAt(s, i) # 0}
  IN  IF starts = {} THEN [from |-> 0, to |-> 0]
      ELSE LET i == CHOOSE i \in starts : \A j \in starts : i <= j
           IN  [from |-> i, to |-> MatchEndAt(s, i)]

\* versionRe.Split(s, 2) (driver.go:216): the text before the first match
\* and the text after it; the whole of s when nothing matches.
Split2(s) ==
  IF Len(s) = 0 THEN << <<>> >>
  ELSE LET m == FindIndex(s)
       IN  IF m.from = 0 THEN <<s>>
           ELSE <<SubSeq(s, 1, m.from - 1), SubSeq(s, m.to, Len(s))>>

\* Version (driver.go:204-223).
VersionOf(stdout, runOk) ==
  IF ~runOk THEN [version |-> <<>>, err |-> "run"]
  ELSE LET versionOutput == TrimSpace(stdout)
           matches == Split2(versionOutput)
       IN  IF Len(matches) = 0
             THEN [version |-> <<>>, err |-> "No version found"]
             ELSE [version |-> matches[1], err |-> "nil"]

\* Version has not been called.
NotCalled == [version |-> <<>>, err |-> "not called"]

InitVersionVars == verStdout = <<>> /\ verRunOk = TRUE /\ verRet = NotCalled

Version ==
  /\ verRet = NotCalled
  /\ verRet' = VersionOf(verStdout, verRunOk)
  /\ UNCHANGED <<driverVars, typistVars, buildVars, verStdout, verRunOk,
                 prepareVars>>

\* ======================================================================
\* Builder.Prepare (builder/hyve/step_run.go:200-365)
\* ======================================================================

\* Checksum types and checksums are sequences of character codes.
S_none == <<110, 111, 110, 101>>            \* "none"
S_md5  == <<109, 100, 53>>                  \* "md5"
S_fake == <<102, 97, 107, 101>>             \* "fake"

\* common.HashForType knows md5, sha1, sha256 and sha512.
HashTypes ==
  { S_md5, <<115, 104, 97, 49>>, <<115, 104, 97, 50, 53, 54>>,
    <<115, 104, 97, 53, 49, 50>> }

\* strings.ToLower on ASCII text.
ToLower(s) == [i \in 1..Len(s) |-> IF s[i] >= 65 /\ s[i] <= 90 THEN s[i] + 32 ELSE s[i]]

\* A URL is a string; NoUrl is the empty string.
NoUrl == ""

\* common.DownloadableURL(url) at step_run.go:319 returns the URL to store
\* and an error. The helper is an external collaborator; of its results
\* the builder's test fixes those for the URLs it prepares, which come
\* back as given and without an error. They are the URLs of the model.
DownloadableURL(u) ==
  CASE u = "http://www.packer.io" -> [ok |-> TRUE, url |-> "http://www.packer.io"]
    [] u = "http://www.hashicorp.com" -> [ok |-> TRUE, url |-> "http://www.hashicorp.com"]

\* --- time.ParseDuration (step_run.go:335, 345) --------------------------
\* A duration text is a sequence of bytes. Numbers that do not fit a
\* machine word are sequences of decimal digits 0..9, most significant
\* first, without leading zeros (the empty sequence is zero).
S_10s  == <<49, 48, 115>>                   \* "10s"
S_5m   == <<53, 109>>                       \* "5m"
S_5s   == <<53, 115>>                       \* "5s"
S_soon == <<115, 111, 111, 110>>            \* "soon"

RECURSIVE DigitsOf(_)
DigitsOf(n) == IF n = 0 THEN <<>> ELSE DigitsOf(n \div 10) \o <<n % 10>>

\* a <= b for numbers without leading zeros: the shorter is the smaller,
\* and of two of one length the one with the smaller digit where they first
\* differ.
NatLE(a, b) ==
  \/ Len(a) < Len(b)
  \/ /\ Len(a) = Len(b)
     /\ \A i \in 1..Len(a) :
          (\A j \in 1..(i - 1) : a[j] = b[j]) => a[i] <= b[i]

\* ds * k + carry for a small k
RECURSIVE MulBy(_, _, _)
MulBy(ds, k, carry) ==
  IF ds = <<>> THEN DigitsOf(carry)
  ELSE LET p == ds[Len(ds)] * k + carry
       IN  MulBy(SubSeq(ds, 1, Len(ds) - 1), k, p \div 10) \o <<p % 10>>

\* a + b + carry
RECURSIVE AddNat(_, _, _)
AddNat(a, b, carry) ==
  IF a = <<>> /\ b = <<>> THEN DigitsOf(carry)
  ELSE LET x == IF a = <<>> THEN 0 ELSE a[Len(a)]
           y == IF b = <<>> THEN 0 ELSE b[Len(b)]
           a1 == IF a = <<>> THEN <<>> ELSE SubSeq(a, 1, Len(a) - 1)
           b1 == IF b = <<>> THEN <<>> ELSE SubSeq(b, 1, Len(b) - 1)
       IN  AddNat(a1, b1, (x + y + carry) \div 10) \o <<(x + y + carry) % 10>>

\* 1<<63, the largest magnitude of a Duration (reached only by a negative
\* one)
Two63 == <<9, 2, 2, 3, 3, 7, 2, 0, 3, 6, 8, 5, 4, 7, 7, 5, 8, 0, 8>>

\* uint64(float64(f) * (float64(unit) / scale)) for f > 0, where scale is
\* the float64 that leadingFraction has multiplied by 10 once for each of
\* the n digits it took. Here a number is a sequence of bits, most
\* significant first and without leading zeros, and a float64 is m * 2^e
\* with a significand m of 53 bits; every operation rounds its exact result
\* to 53 bits, to nearest and ties to even. f is at most 1<<63 and unit at
\* most 3.6e12, so that with more than 31 digits the product is below 1 and
\* the conversion gives 0 (also where scale has become +Inf).
FractionNanos(f, n, unit) ==
  LET Zeros(k) == [i \in 1..k |-> 0]
      Trim(a) ==
        IF \A i \in 1..Len(a) : a[i] = 0 THEN <<>>
        ELSE SubSeq(a, CHOOSE i \in 1..Len(a) :
                         a[i] = 1 /\ \A j \in 1..(i - 1) : a[j] = 0, Len(a))
      Shl(a, k) == IF a = <<>> THEN <<>> ELSE a \o Zeros(k)
      \* a + b: the carry into a place comes from the nearest lower place
      \* where both bits are equal
      Add(a, b) ==
        IF a = <<>> THEN b
        ELSE IF b = <<>> THEN a
        ELSE
        LET k == 1 + (IF Len(a) > Len(b) THEN Len(a) ELSE Len(b))
            x == Zeros(k - Len(a)) \o a
            y == Zeros(k - Len(b)) \o b
            c(i) == \E j \in (i + 1)..k :
                      /\ x[j] = 1 /\ y[j] = 1
                      /\ \A h \in (i + 1)..(j - 1) : x[h] # y[h]
        IN  Trim([i \in 1..k |-> (x[i] + y[i] + IF c(i) THEN 1 ELSE 0) % 2])
      \* a - b for a >= b, with the borrow found the same way
      Sub(a, b) ==
        IF b = <<>> THEN a
        ELSE
        LET k == Len(a)
            y == Zeros(k - Len(b)) \o b
            c(i) == \E j \in (i + 1)..k :
                      /\ a[j] = 0 /\ y[j] = 1
                      /\ \A h \in (i + 1)..(j - 1) : a[h] = y[h]
        IN  Trim([i \in 1..k |-> (2 + a[i] - y[i] - IF c(i) THEN 1 ELSE 0) % 2])
      Ten(a) == Add(Shl(a, 3), Shl(a, 1))
      \* a * b, by halves of b
      RECURSIVE Mul(_, _)
      Mul(a, b) ==
        IF a = <<>> \/ Len(b) = 0 THEN <<>>
        ELSE IF Len(b) = 1 THEN (IF b[1] = 1 THEN a ELSE <<>>)
        ELSE Add(Shl(Mul(a, SubSeq(b, 1, Len(b) \div 2)), Len(b) - Len(b) \div 2),
                 Mul(a, SubSeq(b, Len(b) \div 2 + 1, Len(b))))
      \* long division by d of the remainder r < d followed by the bits
      \* of l: the bits of the quotient, one for each of l, and what remains
      Bit(x, d) ==
        IF NatLE(d, x) THEN [q |-> <<1>>, r |-> Sub(x, d)] ELSE [q |-> <<0>>, r |-> x]
      Join(hi, lo) == [q |-> hi.q \o lo.q, r |-> lo.r]
      RECURSIVE DivMod(_, _, _)
      RECURSIVE Lower(_, _, _)
      DivMod(r, l, d) ==
        IF Len(l) = 1 THEN Bit(Trim(r \o l), d)
        ELSE Lower(DivMod(r, SubSeq(l, 1, Len(l) \div 2), d), l, d)
      Lower(hi, l, d) ==
        Join(hi, DivMod(hi.r, SubSeq(l, Len(l) \div 2 + 1, Len(l)), d))
      \* a * 10^k
      RECURSIVE Tens(_, _)
      Tens(a, k) == IF a = <<>> \/ k = 0 THEN a ELSE Tens(Ten(a), k - 1)
      \* digits to bits, by halves, and back, by 15 bits
      RECURSIVE Bits(_)
      Bits(ds) ==
        IF Len(ds) = 0 THEN <<>>
        ELSE IF Len(ds) = 1
          THEN Trim(<<ds[1] \div 8, (ds[1] \div 4) % 2, (ds[1] \div 2) % 2, ds[1] % 2>>)
        ELSE Add(Mul(Bits(SubSeq(ds, 1, Len(ds) \div 2)), Tens(<<1>>, Len(ds) - Len(ds) \div 2)),
                 Bits(SubSeq(ds, Len(ds) \div 2 + 1, Len(ds))))
      RECURSIVE ToInt(_)
      ToInt(a) ==
        IF Len(a) = 0 THEN 0
        ELSE IF Len(a) = 1 THEN a[1]
        ELSE ToInt(SubSeq(a, 1, Len(a) \div 2)) * 2^(Len(a) - Len(a) \div 2)
             + ToInt(SubSeq(a, Len(a) \div 2 + 1, Len(a)))
      RECURSIVE Digits(_)
      Digits(a) ==
        IF Len(a) <= 15 THEN DigitsOf(ToInt(a))
        ELSE MulBy(Digits(SubSeq(a, 1, Len(a) - 15)), 32768,
                   ToInt(SubSeq(a, Len(a) - 14, Len(a))))
      \* the float64 nearest to a * 2^e for a > 0, where sticky tells that
      \* bits below those of a were lost
      Carried(m, e) == [m |-> SubSeq(m, 1, 53), e |-> e + Len(m) - 53]
      Round(a, e, sticky) ==
        IF Len(a) <= 53 THEN [m |-> a \o Zeros(53 - Len(a)), e |-> e - (53 - Len(a))]
        ELSE IF a[54] = 1 /\ (sticky \/ a[53] = 1 \/ \E i \in 55..Len(a) : a[i] = 1)
          THEN Carried(Add(SubSeq(a, 1, 53), <<1>>), e + Len(a) - 53)
        ELSE [m |-> SubSeq(a, 1, 53), e |-> e + Len(a) - 53]
      \* the product and the quotient of a pair of float64
      Times(p) == Round(Mul(p[1].m, p[2].m), p[1].e + p[2].e, FALSE)
      Rounded(dm, e) == Round(Trim(dm.q), e, dm.r # <<>>)
      Over(p) ==
        Rounded(DivMod(<<>>, p[1].m \o Zeros(55), p[2].m), p[1].e - p[2].e - 55)
      \* scale after k digits, from the scale s after j of them: up to
      \* 10^22 the products by 10 are exact, and a scale of 2^1024 or more
      \* is +Inf
      RECURSIVE Scale(_, _, _)
      Scale(s, j, k) ==
        IF s.e > 971 \/ j = k THEN s
        ELSE Scale(Times(<<s, Round(<<1, 0, 1, 0>>, 0, FALSE)>>), j + 1, k)
      Exact(k) == Round(Tens(<<1>>, k), 0, FALSE)
      Whole(x) ==
        IF x.e <= -53 THEN <<>>
        ELSE Digits(SubSeq(x.m \o Zeros(IF x.e > 0 THEN x.e ELSE 0), 1, 53 + x.e))
  IN  IF n > 31 THEN <<>>
      ELSE Whole(Times(<<Round(Bits(f), 0, FALSE),
                         Over(<<Round(Bits(unit), 0, FALSE),
                                Scale(Exact(IF n < 22 THEN n ELSE 22), IF n < 22 THEN n ELSE 22, n)>>)>>))

\* unitMap: the nanoseconds of a unit as k * 10^z. The units are "ns",
\* "us", "\u00b5s", "\u03bcs", "ms", "s", "m" and "h".
unitMap(u) ==
  IF u = <<110, 115>> THEN [ok |-> TRUE, k |-> 1, z |-> 0]
  ELSE IF u \in {<<117, 115>>, <<194, 181, 115>>, <<206, 188, 115>>}
    THEN [ok |-> TRUE, k |-> 1, z |-> 3]
  ELSE IF u = <<109, 115>> THEN [ok |-> TRUE, k |-> 1, z |-> 6]
  ELSE IF u = <<115>> THEN [ok |-> TRUE, k |-> 1, z |-> 9]
  ELSE IF u = <<109>> THEN [ok |-> TRUE, k |-> 6, z |-> 10]
  ELSE IF u = <<104>> THEN [ok |-> TRUE, k |-> 36, z |-> 11]
  ELSE [ok |-> FALSE, k |-> 0, z |-> 0]

\* The number written by the digit characters of s from position i up to,
\* not including, position j.
NumberAt(s, i, j) ==
  LET ds    == [n \in 1..(j - i) |-> s[i + n - 1] - 48]
      zeros == {n \in 0..Len(ds) : \A m \in 1..n : ds[m] = 0}
      lead  == CHOOSE n \in zeros : \A m \in zeros : m <= n
  IN  SubSeq(ds, lead + 1, Len(ds))

\* leadingFraction: the digits after the point are taken up while the
\* number read stays within 1<<63; the others are skipped. The count of
\* digits taken, starting from n.
RECURSIVE FractionTaken(_, _, _, _)
FractionTaken(s, i, j, n) ==
  IF i + n < j /\ NatLE(NumberAt(s, i, i + n + 1), Two63)
    THEN FractionTaken(s, i, j, n + 1)
    ELSE n

\* The position of the first '.' or digit of s at or after i (Len(s) + 1
\* for none): the end of a unit.
RECURSIVE UnitEnd(_, _)
UnitEnd(s, i) ==
  IF i <= Len(s) /\ ~(s[i] = 46 \/ IsDigit(s[i])) THEN UnitEnd(s, i + 1) ELSE i

\* The loop of ParseDuration over the terms [0-9]*(\.[0-9]*)?unit of s
\* from position i, with d the sum so far: the sum of all, or the failure.
\* The sum d += v is one of uint64 and wraps at 1<<64, which it reaches
\* only as 1<<63 + 1<<63.
RECURSIVE ParseTerms(_, _, _)
ParseTerms(s, i, d) ==
  IF i > Len(s) THEN [ok |-> TRUE, d |-> d]
  ELSE IF ~(s[i] = 46 \/ IsDigit(s[i])) THEN [ok |-> FALSE, d |-> <<>>]
  ELSE
    LET a    == DigitsEnd(s, i)
        v    == NumberAt(s, i, a)
        dot  == a <= Len(s) /\ s[a] = 46
        b    == IF dot THEN DigitsEnd(s, a + 1) ELSE a
        post == dot /\ b > a + 1
        n    == IF dot THEN FractionTaken(s, a + 1, b, 0) ELSE 0
        f    == IF dot THEN NumberAt(s, a + 1, a + 1 + n) ELSE <<>>
        c    == UnitEnd(s, b)
        unit == unitMap(SubSeq(s, b, c - 1))
        TimesUnit(num) ==
          IF num = <<>> THEN <<>> ELSE MulBy(num, unit.k, 0) \o [z \in 1..unit.z |-> 0]
        vu   == TimesUnit(v)
        \* d += v of uint64, then d > 1<<63
        Summed(sum) ==
          IF ~NatLE(sum, Two63) THEN [ok |-> FALSE, d |-> <<>>]
          ELSE ParseTerms(s, c, sum)
        \* v > 1<<63 once the fraction is added
        Term(term) ==
          IF ~NatLE(term, Two63) THEN [ok |-> FALSE, d |-> <<>>]
          ELSE Summed(IF d = Two63 /\ term = Two63 THEN <<>> ELSE AddNat(d, term, 0))
    IN  IF ~NatLE(v, Two63) THEN [ok |-> FALSE, d |-> <<>>]
        ELSE IF a = i /\ ~post THEN [ok |-> FALSE, d |-> <<>>]
        ELSE IF c = b \/ ~unit.ok THEN [ok |-> FALSE, d |-> <<>>]
        ELSE IF ~NatLE(vu, Two63) THEN [ok |-> FALSE, d |-> <<>>]
        ELSE Term(IF f = <<>> THEN vu
                  ELSE AddNat(vu, FractionNanos(f, n, TimesUnit(<<1>>)), 0))

\* time.ParseDuration(s): [-+]?([0-9]*(\.[0-9]*)?[a-z]+)+, or "0" alone
\* after the sign; ok is err == nil, neg and d give the Duration.
ParseDuration(s) ==
  LET signed == s # <<>> /\ s[1] \in {43, 45}
      neg    == s # <<>> /\ s[1] = 45
      from   == IF signed THEN 2 ELSE 1
      fail   == [ok |-> FALSE, neg |-> FALSE, d |-> <<>>]
  IN  IF SubSeq(s, from, Len(s)) = <<48>> THEN [ok |-> TRUE, neg |-> FALSE, d |-> <<>>]
      ELSE IF from > Len(s) THEN fail
      ELSE LET Signed(r) ==
                 IF ~r.ok THEN fail
                 ELSE IF ~neg /\ r.d = Two63 THEN fail
                 ELSE [ok |-> TRUE, neg |-> neg /\ r.d # <<>>, d |-> r.d]
           IN  Signed(ParseTerms(s, from, <<>>))

\* err == nil of time.ParseDuration(s)
ParsesAsDuration(s) == ParseDuration(s).ok

\* Mutant of PortsBad: equal ports are refused too.
PortsBadOrEqual(mn, mx) == mn >= mx

\* step_run.go:282
PortsBad(mn, mx) == mn > mx

\* Mutant of ChecksumType: the type is compared as it was written.
ChecksumTypeAsWritten(t) == t

\* step_run.go:291
ChecksumType(t) == ToLower(t)

\* Mutant of ChecksumErrs: a type that HashForType does not know passes.
ChecksumErrsAnyType(t, sum) ==
  IF t = <<>> THEN <<"The iso_checksum_type must be specified.">>
  ELSE IF ChecksumType(t) # S_none
    THEN IF sum = <<>> THEN <<"Due to large file sizes, an iso_checksum is required">>
         ELSE <<>>
    ELSE <<>>

\* step_run.go:287-306: the errors of the checksum settings.
ChecksumErrs(t, sum) ==
  IF t = <<>> THEN <<"The iso_checksum_type must be specified.">>
  ELSE IF ChecksumType(t) # S_none
    THEN (IF sum = <<>> THEN <<"Due to large file sizes, an iso_checksum is required">>
          ELSE <<>>)
         \o (IF ChecksumType(t) \notin HashTypes THEN <<"Unsupported checksum type">>
             ELSE <<>>)
    ELSE <<>>

\* step_run.go:291-298: the checksum as Prepare stores it.
StoredChecksum(t, sum) ==
  IF t # <<>> /\ ChecksumType(t) # S_none /\ sum # <<>> THEN ToLower(sum) ELSE sum

\* Mutant of IsoUrlErrs: iso_url wins when both are set.
IsoUrlErrsSingleWins(single, urls) ==
  IF single = NoUrl /\ Len(urls) = 0
    THEN <<"One of iso_url or iso_urls must be specified.">>
  ELSE <<>>

\* step_run.go:308-313
IsoUrlErrs(single, urls) ==
  IF single = NoUrl /\ Len(urls) = 0
    THEN <<"One of iso_url or iso_urls must be specified.">>
  ELSE IF single # NoUrl /\ Len(urls) > 0
    THEN <<"Only one of iso_url or iso_urls may be specified.">>
  ELSE <<>>

\* step_run.go:308-316: the URL list before the URLs are made downloadable.
IsoUrlList(single, urls) ==
  IF IsoUrlErrs(single, urls) = <<>> /\ single # NoUrl THEN <<single>> ELSE urls

\* step_run.go:318-324: one error per URL that cannot be downloaded.
RECURSIVE UrlErrs(_, _)
UrlErrs(urls, i) ==
  IF i > Len(urls) THEN <<>>
  ELSE (IF DownloadableURL(urls[i]).ok THEN <<>> ELSE <<"Failed to parse iso_url">>)
       \o UrlErrs(urls, i + 1)

\* Builder.Prepare: the configuration it leaves in b.config and what it
\* returns.
PrepareOf(raw, env) ==
  IF ~env.decodeOk
    THEN [config |-> raw, warnings |-> <<>>, errs |-> <<"decode">>]
  ELSE
    LET urls   == IsoUrlList(raw.RawSingleISOUrl, raw.ISOUrls)
        wait   == IF raw.RawBootWait = <<>> THEN S_10s ELSE raw.RawBootWait
        tmo    == IF raw.RawShutdownTimeout = <<>> THEN S_5m ELSE raw.RawShutdownTimeout
        c == [raw EXCEPT
                !.DiskSize = IF @ = 0 THEN 40000 ELSE @,
                !.HTTPPortMin = IF @ = 0 THEN 8000 ELSE @,
                !.HTTPPortMax = IF @ = 0 THEN 9000 ELSE @,
                !.RawBootWait = wait,
                !.Format = IF @ = "" THEN "raw" ELSE @,
                !.ISOChecksumType = IF @ = <<>> THEN @ ELSE ChecksumType(@),
                !.ISOChecksum = StoredChecksum(raw.ISOChecksumType, @),
                !.ISOUrls = [i \in 1..Len(urls) |-> DownloadableURL(urls[i]).url],
                !.RawShutdownTimeout = tmo]
        errs ==
          (IF env.goos \notin {"darwin", "freebsd"} THEN <<"unsupported OS">> ELSE <<>>)
          \o (IF ~env.commOk THEN <<"communicator">> ELSE <<>>)
          \o (IF ~(c.Format = "qcow2" \/ c.Format = "raw")
                THEN <<"invalid format, only 'qcow2' or 'raw' are allowed">> ELSE <<>>)
          \o (IF PortsBad(c.HTTPPortMin, c.HTTPPortMax)
                THEN <<"http_port_min must be less than http_port_max">> ELSE <<>>)
          \o ChecksumErrs(raw.ISOChecksumType, raw.ISOChecksum)
          \o IsoUrlErrs(raw.RawSingleISOUrl, raw.ISOUrls)
          \o UrlErrs(urls, 1)
          \o (IF ~raw.PackerForce /\ env.dirExists
                THEN <<"Output directory already exists">> ELSE <<>>)
          \o (IF ~ParsesAsDuration(wait) THEN <<"Failed parsing boot_wait">> ELSE <<>>)
          \o (IF ~ParsesAsDuration(tmo) THEN <<"Failed parsing shutdown_timeout">> ELSE <<>>)
        warnings ==
          IF c.ISOChecksumType = S_none
            THEN <<"A checksum type of 'none' was specified.">> ELSE <<>>
    IN  [config |-> c, warnings |-> warnings, errs |-> errs]

\* The configurations Prepare is given.
RawConfigs ==
  [ DiskSize : {0},
    HTTPPortMin : {0, 500, 9500},
    HTTPPortMax : {0, 500, 9500},
    Format : {"", "qcow2", "vmdk"},
    ISOChecksumType : {<<>>, S_none, <<78, 79, 78, 69>>, <<110, 79, 110, 69>>,
                       S_md5, <<109, 68, 53>>, S_fake},
    ISOChecksum : {<<>>, <<70, 79, 111>>},
    RawSingleISOUrl : {NoUrl, "http://www.packer.io"},
    ISOUrls : { <<>>,
                <<"http://www.packer.io">>,
                <<"http://www.packer.io", "http://www.hashicorp.com">>,
                <<"http://www.hashicorp.com", "http://www.packer.io">> },
    PackerForce : BOOLEAN,
    RawBootWait : {<<>>, S_soon},
    RawShutdownTimeout : {<<>>, S_5s} ]

Envs ==
  [ goos : {"darwin", "linux"}, decodeOk : {TRUE}, commOk : BOOLEAN,
    dirExists : BOOLEAN ]

NotPrepared == [called |-> FALSE, warnings |-> <<>>, errs |-> <<>>]

\* The zero Config of a new Builder.
ZeroConfig ==
  [ DiskSize |-> 0, HTTPPortMin |-> 0, HTTPPortMax |-> 0, Format |-> "",
    ISOChecksumType |-> <<>>, ISOChecksum |-> <<>>, RawSingleISOUrl |-> NoUrl,
    ISOUrls |-> <<>>, PackerForce |-> FALSE, RawBootWait |-> <<>>,
    RawShutdownTimeout |-> <<>> ]

InitPrepareVars ==
  /\ prepRaw = ZeroConfig
  /\ prepEnv = [goos |-> "darwin", decodeOk |-> TRUE, commOk |-> TRUE, dirExists |-> FALSE]
  /\ prepConf = ZeroConfig
  /\ prepRet = NotPrepared

Prepare ==
  /\ ~prepRet.called
  /\ prepConf' = PrepareOf(prepRaw, prepEnv).config
  /\ prepRet' = [called |-> TRUE,
                 warnings |-> PrepareOf(prepRaw, prepEnv).warnings,
                 errs |-> PrepareOf(prepRaw, prepEnv).errs]
  /\ UNCHANGED <<driverVars, typistVars, buildVars, versionVars, prepRaw,
                 prepEnv>>

\* ======================================================================
\* Specifications
\* ======================================================================

\* --- SpecDriver: the driver under arbitrary callers --------------------

DriverStep(t) ==
  \/ HyveLock(t) \/ HyveCheck(t) \/ HyveStart(t) \/ HyveReadLine(t)
  \/ HyveSelectExit(t) \/ HyveSelectTimer(t) \/ HyveSet(t)
  \/ StopLock(t) \/ StopBody(t)
  \/ WfsLock(t) \/ WfsRead(t) \/ WfsSelectEnd(t) \/ WfsSelectCancel(t)

\* The subprocess of a launch and its watcher goroutine, up to the
\* watcher's return with its three deferred calls.
BackgroundStep(l) ==
  \/ ProcExit(l) \/ WatcherPublish(l) \/ WatcherLock(l) \/ WatcherClear(l)
  \/ WatcherCloseStdout(l) \/ WatcherCloseStderr(l)

\* The two log readers of a launch.
LogStep(l) == \E s \in Streams : logReader(l, s)

BootCommandsBuild ==
  { <<>>,
    <<[ok |-> TRUE, text |-> <<97>>]>>,
    <<[ok |-> TRUE, text |-> WAIT \o <<97>>], [ok |-> FALSE, text |-> <<>>]>> }

InitDriverSpec ==
  /\ InitDriver /\ InitTypistVars /\ InitBuildVars /\ InitVersionVars /\ InitPrepareVars
  /\ bootCommand = <<>>

NextDriver ==
  \/ \E t \in Launchers : HyveCall(t)
  \/ \E t \in Threads : StopCall(t) \/ WfsCall(t) \/ DriverStep(t)
  \/ \E l \in Launches : BackgroundStep(l) \/ LogStep(l)
  \/ CancelWait

SpecDriver == InitDriverSpec /\ [][NextDriver]_vars

\* Scheduling of the driver: a goroutine that can take a step takes it (the
\* Go scheduler runs every runnable goroutine), and a goroutine waiting for
\* d.lock gets it when the lock is released again and again (sync.Mutex
\* hands the lock to a waiter that has been starved). The process is not
\* obliged to exit or to print, and nobody is obliged to call the driver or
\* to cancel.
LockStep(t) == HyveLock(t) \/ StopLock(t) \/ WfsLock(t)

\* driver.go:101: r.ReadString('\n') is blocked in a read of the terminal
\* for as long as the subprocess runs without printing a line; it is sure to
\* return only once the subprocess has ended (with what was printed, or with
\* the error of a terminal whose other side is closed).
ReadStringReturns(t) == HyveReadLine(t) /\ proc[cmd[t]] # "running"

RunStep(t) ==
  \/ HyveCheck(t) \/ HyveStart(t) \/ ReadStringReturns(t)
  \/ HyveSelectExit(t) \/ HyveSelectTimer(t) \/ HyveSet(t)
  \/ StopBody(t)
  \/ WfsRead(t) \/ WfsSelectEnd(t) \/ WfsSelectCancel(t)

FairDriver ==
  /\ \A t \in Threads : WF_vars(RunStep(t)) /\ SF_vars(LockStep(t))
  /\ \A l \in Launches :
       /\ WF_vars(\/ WatcherPublish(l) \/ WatcherClear(l)
                  \/ WatcherCloseStdout(l) \/ WatcherCloseStderr(l))
       /\ SF_vars(WatcherLock(l))

\* A log reader whose pipe is closed is a runnable goroutine too.
FairLogs == \A l \in Launches : \A s \in Streams : WF_vars(logReader(l, s))

\* --- SpecDriverLive: SpecDriver with its goroutines scheduled -----------

SpecDriverLive == SpecDriver /\ FairDriver /\ FairLogs

\* --- SpecLaunchLive: launches with their watchers and log readers -------

NextLaunch ==
  \/ \E t \in Launchers :
       \/ HyveCall(t) \/ HyveLock(t) \/ HyveCheck(t) \/ HyveStart(t)
       \/ HyveReadLine(t) \/ HyveSelectExit(t) \/ HyveSelectTimer(t) \/ HyveSet(t)
  \/ \E l \in Launches : BackgroundStep(l) \/ LogStep(l)

SpecLaunchLive == InitDriverSpec /\ [][NextLaunch]_vars /\ FairDriver /\ FairLogs

\* --- SpecBuild: Builder.Run --------------------------------------------

\* Configurations Prepare accepts, on a machine where it accepts them.
BuildRaws ==
  { [ZeroConfig EXCEPT !.ISOChecksumType = S_md5, !.ISOChecksum = <<102, 111, 111>>,
                       !.RawSingleISOUrl = "http://www.packer.io"],
    [ZeroConfig EXCEPT !.ISOChecksumType = S_md5, !.ISOChecksum = <<102, 111, 111>>,
                       !.RawSingleISOUrl = "http://www.packer.io",
                       !.Format = "qcow2", !.DiskSize = 1000] }

BuildEnv == [goos |-> "darwin", decodeOk |-> TRUE, commOk |-> TRUE, dirExists |-> FALSE]

\* Builder.Run is called on a Builder whose Prepare returned no error.
InitBuild ==
  /\ InitDriver /\ InitTypistVars /\ InitBuildVars /\ InitVersionVars
  /\ prepRaw \in BuildRaws /\ prepEnv = BuildEnv
  /\ prepConf = PrepareOf(prepRaw, prepEnv).config
  /\ prepRet = [called |-> TRUE, warnings |-> PrepareOf(prepRaw, prepEnv).warnings,
                errs |-> PrepareOf(prepRaw, prepEnv).errs]
  /\ bootCommand \in BootCommandsBuild

NextBuild ==
  \/ BuilderRun \/ BuilderSetRunner \/ Cancel
  \/ StepBegin \/ RunnerBreak \/ StepRunSpec
  \/ stepRunArgsFail \/ stepRunCallHyve \/ stepRunReturn
  \/ HyveLock(BuildThread) \/ HyveCheck(BuildThread) \/ HyveStart(BuildThread)
  \/ HyveReadLine(BuildThread) \/ HyveSelectExit(BuildThread)
  \/ HyveSelectTimer(BuildThread) \/ HyveSet(BuildThread)
  \/ \E l \in Launches : BackgroundStep(l) \/ LogStep(l)
  \/ TypeRun \/ TypeNextLine \/ ttySendStringWait \/ ttySendStringChar
  \/ ttySendStringReturn \/ TypeReturn
  \/ StepCleanup \/ stepRunCleanupCall \/ stepRunCleanupReturn
  \/ StopLock(BuildThread) \/ StopBody(BuildThread)
  \/ RunnerReturn \/ BuilderFinish

SpecBuild == InitBuild /\ [][NextBuild]_vars

\* --- SpecBuildLive: SpecBuild with the build and its goroutines scheduled

\* The goroutine of Builder.Run takes its steps; nobody is obliged to cancel
\* and the process is not obliged to exit.
BuildStep ==
  \/ BuilderRun \/ BuilderSetRunner
  \/ StepBegin \/ RunnerBreak \/ StepRunSpec
  \/ stepRunArgsFail \/ stepRunCallHyve \/ stepRunReturn
  \/ TypeRun \/ TypeNextLine \/ ttySendStringWait \/ ttySendStringChar
  \/ ttySendStringReturn \/ TypeReturn
  \/ StepCleanup \/ stepRunCleanupCall \/ stepRunCleanupReturn
  \/ RunnerReturn \/ BuilderFinish

SpecBuildLive == SpecBuild /\ WF_vars(BuildStep) /\ FairDriver /\ FairLogs

\* --- SpecTypist: the type-boot-command step ----------------------------

\* The build when the runner has called stepTypeBootCommand.Run: the six
\* steps before it have continued, run-VM's launch was decided by the grace
\* timer, and the first output line did or did not name the COM1 device.
InitTypist ==
  /\ vmCmd = 1 /\ vmEndCh = 1 /\ lock = "free" /\ tty \in {NULL, 1}
  /\ op = [t \in Threads |-> IF t = BuildThread THEN "Hyve" ELSE "none"]
  /\ pc = [t \in Threads |-> IF t = BuildThread THEN "done" ELSE "idle"]
  /\ ret = [t \in Threads |-> IF t = BuildThread THEN "nil" ELSE "none"]
  /\ cmd = [t \in Threads |-> IF t = BuildThread THEN 1 ELSE NULL]
  /\ endChL = [t \in Threads |-> NULL]
  /\ sel = [t \in Threads |-> IF t = BuildThread THEN "timer" ELSE "none"]
  /\ hyveCalls = 1 /\ nLaunch = 1
  /\ proc = [l \in Launches |-> IF l = 1 THEN "running" ELSE "none"]
  /\ chan = [l \in Launches |-> <<>>]
  /\ wpc = [l \in Launches |-> IF l = 1 THEN "wait" ELSE "none"]
  /\ sent = [l \in Launches |-> 0]
  /\ pipes = [l \in Launches |-> [s \in Streams |-> IF l = 1 THEN "open" ELSE "none"]]
  /\ logpc = [l \in Launches |-> [s \in Streams |-> IF l = 1 THEN "reading" ELSE "none"]]
  /\ cancelCh = FALSE /\ panicked = FALSE
  /\ lastLive = 1
  /\ wfsFor = [t \in Threads |-> NULL]
  /\ InitTypistVars /\ InitVersionVars /\ InitPrepareVars
  /\ bootCommand \in Commands(MaxTokens, 2)
  /\ rpc = "step" /\ runnerSet = TRUE /\ idx = 7
  /\ ran = <<1, 2, 3, 4, 5, 6, 7>> /\ cleaned = <<>>
  /\ bagErr = "none" /\ bagCancelled = FALSE /\ bagHalted = FALSE
  /\ bagKeys = {"iso_path", "disk_filename", "http_port"}
  /\ bagDisk = "packer-hyve" /\ outputDir = Gone("out") /\ artifact = NoArtifact
  /\ result = NoResult
  /\ haltedAt = 0 /\ haltCause = "none"
  /\ cancelAt = [k |-> -1, inStep |-> FALSE] /\ cancelLost = FALSE

NextTypist ==
  \/ TypeRun \/ TypeNextLine \/ ttySendStringWait \/ ttySendStringChar
  \/ ttySendStringReturn \/ Cancel

SpecTypist == InitTypist /\ [][NextTypist]_vars

\* --- SpecTypistLive: SpecTypist with the step's goroutine scheduled ------

\* ttySendString runs on the goroutine of the step; its sleeps end and the
\* Write of ttySendKey returns (with or without an error).
ttySendStringStep ==
  ttySendStringWait \/ ttySendStringChar \/ ttySendStringReturn

SpecTypistLive == SpecTypist /\ WF_vars(ttySendStringStep)

\* --- SpecVersion: HyveDriver.Version on the outputs of `hyve -v` ---------

InitVersion ==
  /\ InitDriver /\ InitTypistVars /\ InitBuildVars /\ InitPrepareVars
  /\ bootCommand = <<>>
  /\ verStdout \in VerTextsUpTo(MaxVerTokens)
  /\ verRunOk \in BOOLEAN
  /\ verRet = NotCalled

NextVersion == Version

SpecVersion == InitVersion /\ [][NextVersion]_vars

\* --- SpecPrepare: Builder.Prepare on the configurations ------------------

\* config.Decode either fails (and Prepare returns its error at once) or
\* has filled b.config.
InitPrepare ==
  /\ InitDriver /\ InitTypistVars /\ InitBuildVars /\ InitVersionVars
  /\ bootCommand = <<>>
  /\ \/ prepRaw \in RawConfigs /\ prepEnv \in Envs
     \/ /\ prepRaw = ZeroConfig
        /\ prepEnv = [goos |-> "darwin", decodeOk |-> FALSE, commOk |-> TRUE,
                      dirExists |-> FALSE]
  /\ prepConf = prepRaw
  /\ prepRet = NotPrepared

NextPrepare == Prepare

SpecPrepare == InitPrepare /\ [][NextPrepare]_vars

\* ======================================================================
\* Properties of the Driver (checked under SpecDriver)
\* ======================================================================

\* The step of thread t that ends its Hyve call.
HyveReturns(t) == op[t] = "Hyve" /\ pc[t] \notin {"done", "panic"} /\ pc'[t] = "done"

\* C3: Hyve called while the Driver holds a handle panics before spawning
\* anything: while d.vmCmd is set no subprocess is spawned and the handle
\* and the completion signal are never overwritten by another launch (they
\* can only be cleared), and the Hyve call that finds the handle set ends in
\* the panic with handle, signal and spawn count untouched.
C3_DoubleLaunchPanics ==
  [][ /\ vmCmd # NULL =>
           /\ nLaunch' = nLaunch
           /\ vmCmd' \in {vmCmd, NULL}
           /\ vmEndCh' \in {vmEndCh, NULL}
      /\ \A t \in Threads :
           (op[t] = "Hyve" /\ pc[t] = "check" /\ pc'[t] # "check" /\ vmCmd # NULL) =>
               /\ panicked' /\ pc'[t] = "panic"
               /\ vmCmd' = vmCmd /\ vmEndCh' = vmEndCh /\ nLaunch' = nLaunch
    ]_vars

\* C3 witness: a second Hyve call has panicked on the recorded handle of a
\* launch whose process is still running.
C3_Witness ==
  /\ panicked /\ vmCmd # NULL /\ proc[vmCmd] = "running"
  /\ \E t \in Threads : pc[t] = "panic" /\ nLaunch = 1

\* C4: when Hyve receives a non-zero exit code inside the grace window it
\* returns an error with d.vmCmd and d.vmEndCh nil, and afterwards the two
\* fields become non-nil only by the final assignment of a (later) Hyve
\* call that was not decided by a non-zero early exit.
C4_EarlyFailureLeavesNoHandle ==
  [][ /\ \A t \in Threads :
           ( /\ op[t] = "Hyve" /\ pc[t] = "select" /\ pc'[t] # "select"
             /\ chan[cmd[t]] # <<>> /\ Head(chan[cmd[t]]) # 0 ) =>
               /\ pc'[t] = "done" /\ ret'[t] = "err_early"
               /\ vmCmd' = NULL /\ vmEndCh' = NULL
      /\ ( (vmCmd' # vmCmd /\ vmCmd' # NULL) \/ (vmEndCh' # vmEndCh /\ vmEndCh' # NULL) ) =>
           \E t \in Threads :
               /\ op[t] = "Hyve" /\ pc[t] = "set" /\ pc'[t] = "done"
               /\ sel[t] \in {"timer", "exit0"}
               /\ vmCmd' = cmd[t] /\ vmEndCh' = cmd[t]
    ]_vars

\* C4 witness: a launch failed on a non-zero early exit, its watcher has
\* finished, and the Driver holds neither handle nor signal.
C4_Witness ==
  \E t \in Threads :
    /\ op[t] = "Hyve" /\ pc[t] = "done" /\ ret[t] = "err_early" /\ sel[t] = "exitN"
    /\ Cleared(cmd[t]) /\ vmCmd = NULL /\ vmEndCh = NULL

\* C5 (as claimed): a launch decided by the grace timer returns nil, and a
\* WaitForShutdown called after it returns true only once that launch's
\* process has exited and false only once the cancel signal has fired.
C5_WaitReturnsOnlyOnExitOrCancel ==
  \A t \in Threads :
    /\ (op[t] = "Hyve" /\ pc[t] = "done" /\ sel[t] = "timer") => ret[t] = "nil"
    /\ (op[t] = "Wait" /\ pc[t] = "done" /\ wfsFor[t] # NULL) =>
         /\ ret[t] = "true" => proc[wfsFor[t]] = "exited"
         /\ ret[t] = "false" => cancelCh

\* C6 (as claimed): whenever the completion signal decides Hyve's select,
\* whatever the exit code, Hyve returns the early-failure error; it returns
\* nil only when the timer decided.
C6_CompletionFirstAlwaysFails ==
  \A t \in Threads :
    (op[t] = "Hyve" /\ pc[t] = "done") =>
      /\ sel[t] \in {"exit0", "exitN"} => ret[t] = "err_early"
      /\ ret[t] = "nil" => sel[t] = "timer"

\* C6 (amended): Hyve returns the early-failure error exactly when a
\* non-zero exit code decided the select, and then leaves the handle and
\* the signal nil; it returns nil exactly when the timer or an exit code of
\* 0 decided it, and then has recorded its own cmd and endCh.
C6_OnlyNonZeroEarlyExitFails ==
  [][ \A t \in Threads :
        HyveReturns(t) =>
          /\ ret'[t] = "err_early" <=> sel'[t] = "exitN"
          /\ ret'[t] = "nil" <=> sel'[t] \in {"timer", "exit0"}
          /\ ret'[t] = "err_early" => vmCmd' = NULL /\ vmEndCh' = NULL
          /\ ret'[t] = "nil" => vmCmd' = cmd[t] /\ vmEndCh' = cmd[t]
    ]_vars

\* C6 witness: a launch whose process exited with status 0 inside the grace
\* window returned nil.
C6_Witness ==
  \E t \in Threads : op[t] = "Hyve" /\ pc[t] = "done" /\ sel[t] = "exit0" /\ ret[t] = "nil"

\* ======================================================================
\* Properties of the pipeline (checked under SpecBuild)
\* ======================================================================

\* The steps 1..k in the order they run.
UpTo(k) == [i \in 1..k |-> i]

\* The Cleanups run so far are those of the steps that ran, last first.
UnwindsInReverse ==
  /\ Len(cleaned) <= Len(ran)
  /\ \A j \in 1..Len(cleaned) : cleaned[j] = ran[Len(ran) - j + 1]
  /\ rpc \in {"finish", "done"} => Len(cleaned) = Len(ran)

\* C1: once step k has returned Halt the steps that ever run are exactly
\* 1..k, and their Cleanups run once each in the order k, k-1, ..., 1, all
\* of them before runner.Run returns.
C1_HaltStopsAndUnwinds ==
  haltedAt # 0 => (ran = UpTo(haltedAt) /\ UnwindsInReverse)

\* C1 witness: run-VM (step 5) returned Halt and the build has ended with
\* the Cleanups of steps 5, 4, 3, 2, 1 run in this order.
C1_Witness ==
  haltedAt = 5 /\ rpc = "done" /\ cleaned = <<5, 4, 3, 2, 1>>

\* C2: when the cancellation is raised after step k returned Continue and
\* before step k+1 started, the steps that ever run are exactly 1..k and
\* their Cleanups run in reverse order; and raising it while a step is in
\* progress leaves that step where it is.
C2_CancelBetweenSteps ==
  /\ [] ( (cancelAt.k >= 0 /\ ~cancelAt.inStep) =>
            (ran = UpTo(cancelAt.k) /\ UnwindsInReverse) )
  /\ [][ (rpc = "step" /\ ~bagCancelled /\ bagCancelled') =>
            /\ rpc' = "step" /\ idx' = idx /\ ran' = ran
            /\ pc' = pc /\ spc' = spc /\ original' = original /\ tlog' = tlog
       ]_vars

\* C2 witness: the cancellation was raised between steps 3 and 4, no step
\* halted, and the build has ended with Cleanups 3, 2, 1.
C2_Witness ==
  /\ cancelAt = [k |-> 3, inStep |-> FALSE] /\ haltedAt = 0
  /\ rpc = "done" /\ ran = <<1, 2, 3>> /\ cleaned = <<3, 2, 1>>

\* C7 (as claimed): when a step has returned Halt because of an error, the
\* state bag holds an error and Builder.Run returns exactly that error.
C7_HaltByErrorIsReturned ==
  (rpc = "done" /\ haltCause = "error") =>
     (bagErr # "none" /\ result = [artifact |-> FALSE, err |-> bagErr])

\* C8 (as claimed): a Builder.Run that ran its pipeline ends with the
\* artifact (nothing recorded, cancelled or halted), or with "Build was
\* cancelled." (cancelled, no error recorded), or with the recorded error.
C8_ThreeOutcomes ==
  (rpc = "done" /\ runnerSet) =>
     \/ /\ result = [artifact |-> TRUE, err |-> "none"]
        /\ bagErr = "none" /\ ~bagCancelled /\ ~bagHalted
     \/ /\ result = [artifact |-> FALSE, err |-> "Build was cancelled."]
        /\ bagErr = "none" /\ bagCancelled
     \/ /\ result = [artifact |-> FALSE, err |-> bagErr]
        /\ bagErr # "none"

\* ======================================================================
\* Properties of the Serial Typist (checked under SpecTypist)
\* ======================================================================

\* The log of the current (or last) ttySendString call.
CallLog == SubSeq(tlog, lineFrom + 1, Len(tlog))

\* The bytes written by a log, in order.
RECURSIVE WrittenKeys(_)
WrittenKeys(l) ==
  IF l = <<>> THEN <<>>
  ELSE (IF Head(l).ev = "write" THEN <<Head(l).arg>> ELSE <<>>) \o WrittenKeys(Tail(l))

\* C9 (as claimed): after a failed write ttySendString writes no further
\* character of its string, and the step returns Halt.
C9_WriteErrorAborts ==
  /\ \A i \in 1..Len(CallLog) : \A j \in (i + 1)..Len(CallLog) :
        ~(CallLog[i].ev = "write" /\ ~CallLog[i].ok /\ CallLog[j].ev = "write")
  /\ (spc = "done" /\ \E i \in 1..Len(tlog) : tlog[i].ev = "write" /\ ~tlog[i].ok) =>
        stepAction = "Halt"

\* A text holds a directive at some position.
ContainsDirective(s) ==
  \E i \in 1..Len(s) : \E d \in {WAIT, WAIT5, WAIT10} :
     i + Len(d) - 1 <= Len(s) /\ SubSeq(s, i, i + Len(d) - 1) = d

\* The low bytes of the characters of s, decoded left to right.
RECURSIVE CharKeys(_)
CharKeys(s) ==
  IF s = <<>> THEN <<>>
  ELSE <<DecodeRuneInString(s).r % 256>>
         \o CharKeys(SubSeq(s, DecodeRuneInString(s).size + 1, Len(s)))

\* C10: while ttySendString types a string that holds no directive, the
\* bytes it has written, one byte a write, followed by the bytes of the
\* characters it has yet to decode, are the bytes of the characters of the
\* string in order; so on return it has made one write per character.
C10_OneWritePerCharacter ==
  (spc = "typing" /\ ~ContainsDirective(bootCommand[lineIdx].text)) =>
     /\ WrittenKeys(CallLog) \o CharKeys(original) = CharKeys(bootCommand[lineIdx].text)
     /\ \A i \in 1..Len(CallLog) :
          CallLog[i].ev = "write" => CallLog[i].arg \in 0..255

\* C10 witness: ttySendString has typed "a", U+00E9 and is about to return
\* after the two writes 97, 233.
C10_Witness ==
  /\ spc = "typing" /\ original = <<>>
  /\ bootCommand[lineIdx].text = <<97, 195, 169>>
  /\ WrittenKeys(CallLog) = <<97, 233>>

\* The directives with their literal lengths and their sleeps in ms.
DirectiveTable ==
  { [text |-> WAIT,   len |-> 6, ms |-> 1000],
    [text |-> WAIT5,  len |-> 7, ms |-> 5000],
    [text |-> WAIT10, len |-> 8, ms |-> 10000] }

\* C11: a turn of ttySendString's loop that finds <wait>, <wait5> or
\* <wait10> at the scan position removes exactly the 6, 7 or 8 bytes of the
\* directive, leaving the text after it as it was, adds one sleep of 1, 5 or
\* 10 seconds to the log and no write.
C11_DirectiveConsumesItself ==
  [][ \A d \in DirectiveTable :
        ( /\ spc = "typing" /\ HasPrefix(original, d.text)
          /\ (original' # original \/ tlog' # tlog) ) =>
            /\ original' = SubSeq(original, d.len + 1, Len(original))
            /\ tlog' = Append(tlog, [ev |-> "sleep", arg |-> d.ms, ok |-> TRUE])
    ]_vars

\* C11 witness: of the line "<wait5>a" the directive has been consumed with
\* one sleep of 5 s and no write, and "a" is left to type.
C11_Witness ==
  /\ spc = "typing" /\ bootCommand[lineIdx].text = WAIT5 \o <<97>>
  /\ original = <<97>>
  /\ CallLog = <<[ev |-> "sleep", arg |-> 5000, ok |-> TRUE]>>

\* C12: a Stop that finds no handle recorded returns nil, signals no process
\* and leaves handle, completion signal and tty as they are, every time it
\* is called; a Stop that finds a handle kills the process of that handle
\* and no other (a process that has already exited is not changed), and
\* returns nil when that process was running.
C12_StopWithoutHandleIsNoOp ==
  [][ \A t \in Threads :
        (op[t] = "Stop" /\ pc[t] = "body" /\ pc'[t] = "done") =>
          /\ vmCmd' = vmCmd /\ vmEndCh' = vmEndCh /\ tty' = tty
          /\ vmCmd = NULL => (ret'[t] = "nil" /\ proc' = proc)
          /\ vmCmd # NULL =>
               /\ \A l \in Launches :
                    proc'[l] = IF l = vmCmd /\ proc[l] = "running"
                                 THEN "killed" ELSE proc[l]
               /\ proc[vmCmd] = "running" => ret'[t] = "nil"
    ]_vars

\* C12 witness: after a launch whose watcher has cleared the fields, two
\* Stop calls have both returned nil on the Driver without a handle.
C12_Witness ==
  /\ vmCmd = NULL /\ nLaunch = 1 /\ Cleared(1)
  /\ \A t \in Threads : op[t] = "Stop" /\ pc[t] = "done" /\ ret[t] = "nil"

\* Thread t is blocked in WaitForShutdown's select.
Waiting(t) == op[t] = "Wait" /\ pc[t] = "select"

\* C13: a thread blocked in WaitForShutdown's select does not hold d.lock:
\* whenever the lock is held, its holder is not a thread blocked in that
\* select, so a Stop call and a completion watcher can take it meanwhile.
C13_WaiterHoldsNoLock ==
  \A t \in Threads : Waiting(t) => lock # t

\* C13 witness: while a thread is blocked in WaitForShutdown on the channel
\* of launch 1, a Stop of the other thread has killed that process and
\* returned, and the watcher has published the exit code and, under the
\* lock, cleared the fields: the waiter can now receive.
C13_Witness ==
  \E t, u \in Threads :
    /\ Waiting(t) /\ endChL[t] = 1 /\ chan[1] # <<>>
    /\ op[u] = "Stop" /\ pc[u] = "done" /\ ret[u] = "nil"
    /\ Cleared(1) /\ vmCmd = NULL /\ lock = "free"

\* The subprocesses spawned by the Driver that are running.
Alive == {l \in Launches : proc[l] = "running"}

\* C14 (as claimed): at most one subprocess spawned by the Driver is alive.
C14_AtMostOneAlive == Cardinality(Alive) <= 1

\* ======================================================================
\* Properties of Version (checked under SpecVersion)
\* ======================================================================

\* C15 (as claimed): when the version command ran, Version returns an error
\* and the empty string if the trimmed output holds no match of the version
\* pattern, and the matched text without an error if it holds one.
C15_VersionIsTheMatch ==
  (verRet # NotCalled /\ verRunOk) =>
     LET out == TrimSpace(verStdout)
         m   == FindIndex(out)
     IN  IF m.from = 0
           THEN verRet.err # "nil" /\ verRet.version = <<>>
           ELSE verRet.err = "nil" /\ verRet.version = SubSeq(out, m.from, m.to - 1)

\* ======================================================================
\* Properties of Builder.Prepare (checked under SpecPrepare)
\* ======================================================================

\* Prepare has returned after config.Decode succeeded.
Prepared == prepRet.called /\ prepEnv.decodeOk

\* The elements of a sequence.
Range(s) == {s[i] : i \in 1..Len(s)}

\* The ports of the raw configuration with the defaults for zero values.
PortMinOf(raw) == IF raw.HTTPPortMin = 0 THEN 8000 ELSE raw.HTTPPortMin
PortMaxOf(raw) == IF raw.HTTPPortMax = 0 THEN 9000 ELSE raw.HTTPPortMax

PortError == "http_port_min must be less than http_port_max"

\* The raw checksum type is "none" in some letter case.
TypeIsNone(raw) ==
  /\ Len(raw.ISOChecksumType) = 4
  /\ raw.ISOChecksumType[1] \in {110, 78} /\ raw.ISOChecksumType[2] \in {111, 79}
  /\ raw.ISOChecksumType[3] \in {110, 78} /\ raw.ISOChecksumType[4] \in {101, 69}

\* C16 (as claimed): with http_port_min > http_port_max after the defaults
\* Prepare returns an error and no warning; with min <= max the port check
\* adds no error.
C16_BadPortsErrorNoWarning ==
  Prepared =>
    /\ PortMinOf(prepRaw) > PortMaxOf(prepRaw) =>
         (prepRet.errs # <<>> /\ prepRet.warnings = <<>>)
    /\ PortMinOf(prepRaw) <= PortMaxOf(prepRaw) => PortError \notin Range(prepRet.errs)

\* C16 (amended): with http_port_min > http_port_max after the defaults
\* Prepare returns an error holding the port error, with min <= max the
\* port error is absent, and the port check adds no warning: the warnings
\* are the single checksum warning when the checksum type is "none" and no
\* warning otherwise.
C16_BadPortsErrorOnly ==
  Prepared =>
    /\ PortMinOf(prepRaw) > PortMaxOf(prepRaw) =>
         (prepRet.errs # <<>> /\ PortError \in Range(prepRet.errs))
    /\ PortMinOf(prepRaw) <= PortMaxOf(prepRaw) => PortError \notin Range(prepRet.errs)
    /\ Len(prepRet.warnings) = IF TypeIsNone(prepRaw) THEN 1 ELSE 0

\* C16 witness: http_port_min 9500 against the default maximum 9000, on an
\* otherwise clean configuration, returned the port error alone and no
\* warning.
C16_Witness ==
  /\ Prepared /\ prepRaw.HTTPPortMin = 9500 /\ prepRaw.HTTPPortMax = 0
  /\ prepRet.errs = <<PortError>> /\ prepRet.warnings = <<>>

\* Everything but the checksum settings is valid.
OtherwiseValid(raw, env) ==
  /\ env.decodeOk /\ env.commOk /\ env.goos \in {"darwin", "freebsd"}
  /\ raw.Format \in {"", "raw", "qcow2"}
  /\ PortMinOf(raw) <= PortMaxOf(raw)
  /\ (raw.RawSingleISOUrl = NoUrl) # (raw.ISOUrls = <<>>)
  /\ (raw.PackerForce \/ ~env.dirExists)
  /\ raw.RawBootWait \in {<<>>, S_10s, S_5s}
  /\ raw.RawShutdownTimeout \in {<<>>, S_5m, S_5s}

\* C17: with iso_checksum_type "none" in any letter case and an otherwise
\* valid configuration Prepare returns exactly one warning and no error,
\* with or without an iso_checksum; with any other checksum type it returns
\* no warning.
C17_NoneWarnsOnly ==
  Prepared =>
    /\ (TypeIsNone(prepRaw) /\ OtherwiseValid(prepRaw, prepEnv)) =>
          (Len(prepRet.warnings) = 1 /\ prepRet.errs = <<>>)
    /\ ~TypeIsNone(prepRaw) => prepRet.warnings = <<>>

\* C17 witness: type "NONE" without a checksum on a valid configuration
\* returned one warning and no error.
C17_Witness ==
  /\ Prepared /\ prepRaw.ISOChecksumType = <<78, 79, 78, 69>> /\ prepRaw.ISOChecksum = <<>>
  /\ Len(prepRet.warnings) = 1 /\ prepRet.errs = <<>>

LowerOf(s, l) ==
  /\ Len(l) = Len(s)
  /\ \A i \in 1..Len(s) : l[i] = IF s[i] >= 65 /\ s[i] <= 90 THEN s[i] + 32 ELSE s[i]

\* The raw checksum type, in some letter case, is one the hashes know.
TypeIsKnown(raw) == \E h \in HashTypes : LowerOf(raw.ISOChecksumType, h)

\* C19 (as claimed): Prepare returns an error when iso_checksum_type is
\* empty, when it is not a supported type, and when it is not "none" and
\* iso_checksum is empty; when it returns no error, iso_checksum_type and
\* iso_checksum are stored lower-cased.
C19_ChecksumChecked ==
  Prepared =>
    /\ prepRaw.ISOChecksumType = <<>> => prepRet.errs # <<>>
    /\ (~TypeIsNone(prepRaw) /\ ~TypeIsKnown(prepRaw)) => prepRet.errs # <<>>
    /\ (~TypeIsNone(prepRaw) /\ prepRaw.ISOChecksum = <<>>) => prepRet.errs # <<>>
    /\ prepRet.errs = <<>> =>
         /\ LowerOf(prepRaw.ISOChecksumType, prepConf.ISOChecksumType)
         /\ LowerOf(prepRaw.ISOChecksum, prepConf.ISOChecksum)

\* C19 (amended): the same errors; when Prepare returns no error,
\* iso_checksum_type is stored lower-cased, and iso_checksum is stored
\* lower-cased when the type is not "none" and as it was given when the
\* type is "none".
C19_ChecksumCheckedNoneAsGiven ==
  Prepared =>
    /\ prepRaw.ISOChecksumType = <<>> => prepRet.errs # <<>>
    /\ (~TypeIsNone(prepRaw) /\ ~TypeIsKnown(prepRaw)) => prepRet.errs # <<>>
    /\ (~TypeIsNone(prepRaw) /\ prepRaw.ISOChecksum = <<>>) => prepRet.errs # <<>>
    /\ prepRet.errs = <<>> =>
         /\ LowerOf(prepRaw.ISOChecksumType, prepConf.ISOChecksumType)
         /\ IF TypeIsNone(prepRaw)
              THEN prepConf.ISOChecksum = prepRaw.ISOChecksum
              ELSE LowerOf(prepRaw.ISOChecksum, prepConf.ISOChecksum)

\* C19 witness: type "mD5" with checksum "FOo" on a valid configuration was
\* accepted and stored as "md5" and "foo".
C19_Witness ==
  /\ Prepared /\ prepRaw.ISOChecksumType = <<109, 68, 53>>
  /\ prepRaw.ISOChecksum = <<70, 79, 111>> /\ prepRet.errs = <<>>
  /\ prepConf.ISOChecksumType = S_md5 /\ prepConf.ISOChecksum = <<102, 111, 111>>

\* ======================================================================
\* Properties of the artifact Builder.Run assembles (checked under SpecBuild)
\* ======================================================================

\* The paths of the entries under (and including) an entry that are not
\* directories.
RECURSIVE NonDirPaths(_, _)
NonDirPaths(path, e) ==
  IF e.kind # "dir" THEN {path}
  ELSE UNION {NonDirPaths(Append(path, e.kids[i].name), e.kids[i]) : i \in 1..Len(e.kids)}

\* The paths of the directories under (and including) an entry.
RECURSIVE DirPaths(_, _)
DirPaths(path, e) ==
  IF e.kind # "dir" THEN {}
  ELSE {path} \cup
       UNION {DirPaths(Append(path, e.kids[i].name), e.kids[i]) : i \in 1..Len(e.kids)}

\* Every entry can be examined and every directory read.
RECURSIVE Walkable(_)
Walkable(e) ==
  /\ e.kind # "gone"
  /\ e.kind = "dir" => (e.readable /\ \A i \in 1..Len(e.kids) : Walkable(e.kids[i]))

\* Builder.Run has returned after a pipeline run without error, halt or
\* cancel, and has walked the output directory.
RunCompleted ==
  /\ rpc = "done" /\ runnerSet /\ bagErr = "none" /\ ~bagCancelled /\ ~bagHalted

\* C20: after a pipeline run that completed without halt or cancel, the
\* artifact's files are exactly the paths of the non-directory entries found
\* recursively under the output directory, each once and no directory among
\* them, and its state holds the disk_filename of the state bag as diskName
\* and the configured format and disk size as diskFormat and diskSize; the
\* artifact is returned whenever the whole directory can be walked.
C20_ArtifactListsFiles ==
  RunCompleted =>
    /\ result.artifact =>
         /\ Range(artifact.f) = NonDirPaths(<<outputDir.name>>, outputDir)
         /\ Range(artifact.f) \cap DirPaths(<<outputDir.name>>, outputDir) = {}
         /\ Cardinality(Range(artifact.f)) = Len(artifact.f)
         /\ "disk_filename" \in bagKeys /\ artifact.state.diskName = bagDisk
         /\ artifact.state.diskFormat = prepConf.Format
         /\ artifact.state.diskSize = prepConf.DiskSize
    /\ Walkable(outputDir) => result.artifact

\* C20 witness: an output directory holding a and b/c gave an artifact of
\* exactly these two paths, with the qcow2 format and the disk size 1000 of
\* the configuration.
C20_Witness ==
  /\ RunCompleted /\ result.artifact
  /\ outputDir = Dir("out", <<File("a"), Dir("b", <<File("c")>>)>>)
  /\ Range(artifact.f) = {<<"out", "a">>, <<"out", "b", "c">>}
  /\ artifact.state = [diskName |-> "vm.qcow2", diskFormat |-> "qcow2", diskSize |-> 1000]

\* ======================================================================
\* Progress of the Driver (checked under SpecDriverLive)
\* ======================================================================

\* Thread t is inside a Hyve call.
InHyve(t) == op[t] = "Hyve" /\ pc[t] \notin {"done", "panic"}

\* The process of launch l has ended.
Ended(l) == proc[l] \in {"exited", "killed"}

\* Thread t is inside a Hyve call that has spawned its subprocess.
Launched(t) == op[t] = "Hyve" /\ pc[t] \in {"readline", "select", "set"}

\* C21 (as claimed): whenever the process of a launch exits (before Hyve's
\* select, inside the grace window or after it), the Hyve call that spawned
\* it eventually returns and the completion watcher of that launch
\* eventually takes the lock, clears the handle fields and terminates.
C21_LaunchAndWatcherFinish ==
  /\ \A t \in Launchers : (Launched(t) /\ Ended(cmd[t])) ~> ~InHyve(t)
  /\ \A l \in Launches : Ended(l) ~> (wpc[l] = "done" \/ panicked)

\* C28 (as claimed): for every launch that started its log readers, whatever decided
\* Hyve's select, once the process has ended both log readers eventually
\* end, and they end only after the watcher has closed the pipes; a log
\* reader has no way to report an error and none of its steps changes
\* anything but its own position. ("Still reading after the process
\* ended" is left only by the reader ending, so the first conjunct says
\* that no reader stays in it forever.)
C28_LogReadersEnd ==
  /\ []<>(panicked \/ \A l \in Launches : \A s \in Streams :
              ~(Ended(l) /\ logpc[l][s] = "reading"))
  /\ [] (\A l \in Launches : \A s \in Streams :
           logpc[l][s] = "done" => (pipes[l][s] = "closed" /\ Cleared(l)))
  /\ [][ \A l \in Launches : \A s \in Streams :
           (logpc[l][s] = "reading" /\ logpc'[l][s] = "done") =>
              UNCHANGED <<vmCmd, vmEndCh, lock, tty, pc, ret, proc, chan, wpc, pipes>>
       ]_vars

\* C30 (as claimed): once the process of a launch has ended, no
\* WaitForShutdown call stays blocked on that launch's completion signal:
\* a call that is in its select on the signal (it got there before or after
\* the exit) eventually leaves it, also when the cancel channel is never
\* closed.
C30_WaitNeverBlocksForever ==
  \A t \in Threads :
    (Waiting(t) /\ Ended(endChL[t])) ~> (~Waiting(t) \/ panicked)

\* ======================================================================
\* Further properties of the Driver (checked under SpecDriver)
\* ======================================================================

\* The step in which thread t's WaitForShutdown returns true.
WaitReturnsTrue(t) ==
  op[t] = "Wait" /\ pc[t] \in {"read", "select"} /\ pc'[t] = "done" /\ ret'[t] = "true"

\* C22 (as claimed): the watcher clears the handle fields before it
\* publishes the exit code: while an exit code is in a completion signal,
\* and whenever WaitForShutdown returns true, the Driver holds neither
\* handle nor signal (so that a Hyve call that follows does not panic).
C22_ClearedBeforePublished ==
  [][ /\ \A l \in Launches :
           (chan[l] = <<>> /\ chan'[l] # <<>>) => (vmCmd' # l /\ vmEndCh' # l)
      /\ \A t \in Threads :
           WaitReturnsTrue(t) => (vmCmd' = NULL /\ vmEndCh' = NULL)
    ]_vars

\* Thread t takes the step of method m at position p: the step that reads
\* or writes d.vmCmd or d.vmEndCh there.
Access(t, m, p) == op[t] = m /\ pc[t] = p /\ pc'[t] # p

\* C23: every read and every write of d.vmCmd and d.vmEndCh is made by the
\* holder of d.lock: Hyve's check of d.vmCmd and its final assignments,
\* Stop's read of d.vmCmd, WaitForShutdown's read of d.vmEndCh and the
\* watcher's clearing each happen while the acting thread or watcher holds
\* the lock, and the two fields change in no other step.
C23_FieldsAccessedUnderLock ==
  [][ /\ \A t \in Threads :
           ( Access(t, "Hyve", "check") \/ Access(t, "Hyve", "set")
             \/ Access(t, "Stop", "body") \/ Access(t, "Wait", "read") ) => lock = t
      /\ \A l \in Launches :
           (wpc[l] = "clear" /\ wpc'[l] = "close_stdout") => lock = WatcherId(l)
      /\ (vmCmd' # vmCmd \/ vmEndCh' # vmEndCh) =>
           \/ \E t \in Threads : Access(t, "Hyve", "set") /\ lock = t
           \/ \E l \in Launches : wpc[l] = "clear" /\ wpc'[l] = "close_stdout" /\ lock = WatcherId(l)
    ]_vars

\* C23 witness: the watcher of launch 1 holds the lock and is about to clear
\* the fields that Hyve set, while one thread waits for the lock in Stop and
\* the other in WaitForShutdown.
C23_Witness ==
  /\ wpc[1] = "clear" /\ lock = WatcherId(1) /\ vmCmd = 1 /\ vmEndCh = 1
  /\ \E t, u \in Threads :
       /\ op[t] = "Stop" /\ pc[t] = "lock"
       /\ op[u] = "Wait" /\ pc[u] = "lock"

\* C29: for every launch whose watcher was started, the watcher sends
\* nothing before cmd.Wait() returns and exactly one exit code in all, the
\* buffer of the completion signal never holds more than that one code, and
\* when the process has ended the send is possible at once, whether or not
\* anybody receives (a program that panicked runs no goroutine any more).
C29_OnePublishNeverBlocks ==
  \A l \in Launches :
    /\ sent[l] = IF Reaped(l) THEN 1 ELSE 0
    /\ Len(chan[l]) <= sent[l]
    /\ (wpc[l] = "wait" /\ Ended(l) /\ ~panicked) => ENABLED WatcherPublish(l)

\* C29 witness: the watcher of launch 1 has sent its one exit code and
\* ended while nobody was receiving: Hyve had returned on the timer and no
\* thread has called WaitForShutdown; the code is still in the buffer.
C29_Witness ==
  /\ Cleared(1) /\ sent[1] = 1 /\ Len(chan[1]) = 1
  /\ \E t \in Launchers : op[t] = "Hyve" /\ pc[t] = "done" /\ sel[t] = "timer" /\ cmd[t] = 1
  /\ \A t \in Threads : op[t] # "Wait"


\* C31: a launch whose completion watcher has finished is never the
\* Driver's handle nor its completion signal; the watcher's last step leaves
\* both fields empty; and an empty field is filled only by the assignment
\* of a Hyve call (driver.go:151-152), which records its own launch in both
\* fields while the watcher of that launch has not yet taken the lock: the
\* assignment never comes after the watcher's clear.
C31_NoStaleHandleAfterWatcher ==
  /\ [] (\A l \in Launches : Cleared(l) => (vmCmd # l /\ vmEndCh # l))
  /\ [][ /\ \A l \in Launches :
              (wpc[l] = "clear" /\ wpc'[l] = "close_stdout") =>
                 (vmCmd' = NULL /\ vmEndCh' = NULL)
         /\ ((vmCmd = NULL /\ vmCmd' # NULL) \/ (vmEndCh = NULL /\ vmEndCh' # NULL)) =>
              \E t \in Launchers :
                 /\ op[t] = "Hyve" /\ pc[t] = "set" /\ pc'[t] = "done"
                 /\ vmCmd' = cmd[t] /\ vmEndCh' = cmd[t]
                 /\ wpc[cmd[t]] \in {"wait", "lock"}
       ]_vars

\* C31 witness: the process of launch 1 exited with code 0 inside the grace
\* window, Hyve recorded the handle of the dead process and returned nil,
\* and the watcher has since finished: both fields are empty.
C31_Witness ==
  /\ \E t \in Launchers :
       /\ op[t] = "Hyve" /\ pc[t] = "done" /\ cmd[t] = 1
       /\ sel[t] = "exit0" /\ ret[t] = "nil"
  /\ proc[1] = "exited" /\ Cleared(1)
  /\ vmCmd = NULL /\ vmEndCh = NULL

\* C32 (as claimed): at the return of a Hyve call that spawned a subprocess,
\* whatever the outcome of the call (nil, an early failure, an error while
\* reading the first line), that subprocess is the Driver's recorded handle
\* or is no longer running.
C32_ReturnedLaunchIsTracked ==
  [][ \A t \in Launchers :
         (HyveReturns(t) /\ cmd[t] # NULL) =>
            (vmCmd' = cmd[t] \/ proc'[cmd[t]] # "running") ]_vars
\* ======================================================================
\* Further properties of the type-boot-command step
\* ======================================================================

\* C24 (as claimed): every unit of work of ttySendString, a written
\* character as well as a wait directive, is followed by one settling delay
\* of 100 ms before the next unit: every turn of the loop ends with that
\* sleep.
C24_SettlingDelayAfterEveryUnit ==
  [][ (spc = "typing" /\ original' # original) =>
        /\ tlog' # tlog
        /\ tlog'[Len(tlog')] = [ev |-> "sleep", arg |-> 100, ok |-> TRUE]
    ]_vars

\* The step of the range loop that hands line lineIdx to ttySendString.
LineStarts == spc = "loop" /\ spc' = "typing"

\* The step in which stepTypeBootCommand.Run returns.
TypeStepReturns == spc # "done" /\ spc' = "done"

\* The bytes ttySendString writes for a text: its characters' low bytes,
\* the directives left out.
RECURSIVE TextKeys(_)
TextKeys(s) ==
  IF s = <<>> THEN <<>>
  ELSE IF \E d \in DirectiveTable : HasPrefix(s, d.text)
    THEN TextKeys(SubSeq(s, (CHOOSE d \in DirectiveTable : HasPrefix(s, d.text)).len + 1,
                         Len(s)))
    ELSE <<DecodeRuneInString(s).r % 256>>
           \o TextKeys(SubSeq(s, DecodeRuneInString(s).size + 1, Len(s)))

\* The bytes written for the first n lines of the boot command, in order.
RECURSIVE LinesKeys(_)
LinesKeys(n) == IF n = 0 THEN <<>> ELSE LinesKeys(n - 1) \o TextKeys(bootCommand[n].text)

\* C25 (as claimed): once the cancellation signal is set no further line is
\* handed to ttySendString and the step (of a boot command that has lines)
\* returns Halt, nothing already typed is undone; when the signal is not set and every line renders, all
\* lines are typed in order and the step returns Continue.
C25_CancelledStepHalts ==
  [][ /\ LineStarts => ~bagCancelled
      /\ SubSeq(tlog', 1, Len(tlog)) = tlog
      /\ (TypeStepReturns /\ bagCancelled /\ Len(bootCommand) > 0) => stepAction' = "Halt"
      /\ (TypeStepReturns /\ ~bagCancelled /\ spc = "loop"
          /\ \A i \in 1..Len(bootCommand) : bootCommand[i].ok) =>
           /\ stepAction' = "Continue"
           /\ WrittenKeys(tlog) = LinesKeys(Len(bootCommand))
    ]_vars

\* C25 (amended): the step looks at the cancellation signal once before each
\* line, after rendering it: no line is handed to ttySendString while the
\* signal is set, nothing already typed is undone, and the step returns
\* Halt when it finds the signal set before a line (having typed exactly
\* the lines before it) or a line fails to render; when it gets through its
\* last line it returns Continue with all lines typed in order, also when
\* the signal was set while the last line was being typed.
C25_CancelCheckedBeforeEachLine ==
  [][ /\ LineStarts => ~bagCancelled
      /\ SubSeq(tlog', 1, Len(tlog)) = tlog
      /\ (TypeStepReturns /\ spc = "loop") =>
           /\ WrittenKeys(tlog) = LinesKeys(lineIdx - 1)
           /\ stepAction' = IF lineIdx > Len(bootCommand) THEN "Continue" ELSE "Halt"
           /\ lineIdx <= Len(bootCommand) => (~bootCommand[lineIdx].ok \/ bagCancelled)
           /\ (lineIdx <= Len(bootCommand) /\ bootCommand[lineIdx].ok) => bagErr' = bagErr
    ]_vars

\* C25 witness: the signal was set after the first of two lines, "a", was
\* handed to ttySendString; the step has typed "a", found the signal before
\* the second line and returned Halt without an error.
C25_Witness ==
  /\ spc = "done" /\ stepAction = "Halt" /\ bagCancelled /\ bagErr = "none"
  /\ Len(bootCommand) = 2 /\ lineIdx = 2 /\ bootCommand[2].ok
  /\ bootCommand[1].text = <<97>> /\ WrittenKeys(tlog) = <<97>>

\* ======================================================================
\* Further properties of Builder.Run (checked under SpecBuild)
\* ======================================================================

\* Builder.Cancel has been called, and has returned, during Builder.Run.
CancelCalled == cancelLost \/ cancelAt.k >= 0

\* C26 (as claimed): after a call of Builder.Cancel made at any moment after
\* Builder.Run began no step is started, and the build ends with "Build was
\* cancelled." unless an error was recorded.
C26_CancelStopsPipeline ==
  /\ [][ CancelCalled => ran' = ran ]_vars
  /\ [] ( (rpc = "done" /\ CancelCalled /\ bagErr = "none") =>
             result = [artifact |-> FALSE, err |-> "Build was cancelled."] )

\* ======================================================================
\* Progress of Builder.Run (checked under SpecBuildLive)
\* ======================================================================

\* The runner has called the Run of the run-VM step.
RunVMStarted == \E i \in 1..Len(ran) : Steps[ran[i]] = "run"

\* The Cleanup of the run-VM step has been called.
RunVMCleaned == \E i \in 1..Len(cleaned) : Steps[cleaned[i]] = "run"

\* C27 (as claimed): whenever the pipeline stops after the run-VM step was
\* started, the Cleanup of run-VM is called and calls Stop, and afterwards
\* no subprocess of the Driver stays running and the Driver comes to hold
\* no handle (unless the program panicked, which ends every goroutine).
C27_StopEndsTheProcess ==
  /\ (RunVMStarted /\ rpc = "cleanup") ~> (RunVMCleaned /\ op[BuildThread] = "Stop")
  /\ (rpc = "done" /\ RunVMStarted) ~>
        (((\A l \in Launches : proc[l] # "running") /\ vmCmd = NULL) \/ panicked)


\* A turn of ttySendString's loop: the call goes on and has slept or written.
LoopTurn == spc = "typing" /\ spc' = "typing" /\ (original' # original \/ tlog' # tlog)

\* "<wait" followed by a lone lead byte: a '<' that starts no directive and
\* invalid UTF-8.
StrayText == <<60, 119, 97, 105, 116, 195>>

\* C33: every turn of ttySendString's loop removes a prefix of at least one
\* byte from the remaining text and leaves the bytes after it as they were;
\* the width it slices off (of the directive or of the decoded rune) is
\* never more than what remains; and every call of ttySendString returns.
C33_EveryTurnShortensTheText ==
  /\ [][ LoopTurn =>
           \E k \in 1..Len(original) :
              original' = SubSeq(original, k + 1, Len(original)) ]_vars
  /\ [] ((spc = "typing" /\ Len(original) > 0) =>
           /\ Directive(original).len <= Len(original)
           /\ DecodeRuneInString(original).size \in 1..Len(original))
  /\ (spc = "typing") ~> (spc # "typing")

\* C33 witness: ttySendString has returned from the line made of "<wait"
\* and a lone lead byte, after six turns of one write and one sleep each.
C33_Witness ==
  /\ spc = "loop" /\ lineIdx = 2
  /\ bootCommand[1].ok /\ bootCommand[1].text = StrayText
  /\ Len(CallLog) = 12 /\ original = <<>>
====
